---- MODULE Spec2Model ----
(***************************************************************************)
(* lsd's Table (src/lsd/table.py).  The write path: per-cell lockfiles,    *)
(* the append/update loop over the destination cells and the column        *)
(* groups, primary-key generation from the per-cell sequence, upsert       *)
(* classification, BLOB storage, row accounting, and drop_row_group.  The  *)
(* read path: fetch_tablet, fetch_blobs, the pseudo-tablet and the         *)
(* static-sky substitution.  The schema: create_cgroup, define_alias,      *)
(* define_fgroup, set_default_filters, schema.cfg and its reload.  The     *)
(* cell tree of get_cells.                                                 *)
(*                                                                         *)
(* The table of the write and read path has two stored column groups,      *)
(* "pri" (columns id, ra, b; id is the primary key, ra the spatial key, b  *)
(* a BLOB column) and "aux" (columns x and the BLOB column c).  A key is   *)
(* cell_part * ObjMod + obj_part; a cell is named by its cell_part.        *)
(***************************************************************************)
EXTENDS Integers, Sequences, FiniteSets, TLC

\* ---------------------------------------------------------------- bounds
\* Width of the obj_part of a key (32 in the program), scaled down.
ObjBits == 2
\* Calls (append, drop_row_group) the processes make in one behaviour.
MaxCalls == 2
\* Lock attempts of one pass of the locking loop (xrange(3600) in the program).
LockTries == 2

ObjMod == 2 ^ ObjBits

Procs == {1, 2}
Cells == {0, 1}
NoCell == -1
NoProc == 0

\* ---------------------------------------------------------------- schema
\* self._cgroups without the pseudo-cgroup, in schema order.
CGroups == <<"pri", "aux">>
primary_cgroup == "pri"
primary_key == "id"
spatial_key == "ra"

Columns(g) == IF g = "pri" THEN {"id", "ra", "b"} ELSE {"x", "c"}

\* schema['blobs']: the blob columns of the cgroup.
Blobs(g) == IF g = "pri" THEN {"b"} ELSE {"c"}

\* np.zeros(1, dtype=schema['columns'])
ZeroRow(g) == [c \in Columns(g) |-> 0]

\* ---------------------------------------------------------- pixelization
\* The key functions of the Pixelization class (module pixelization, imported
\* at line 18), by their interface: the low ObjBits bits of a key are the
\* object index (_xyti_from_id), the bits above name the cell.
obj_part(key) == key % ObjMod
cell_for_id(key) == key \div ObjMod
is_cell_id(key) == obj_part(key) = 0
obj_id_from_pos(ra) == ra * ObjMod
id_for_cell_i(cell, i) == cell * ObjMod + i

\* The temporal/static split: of the two cells, cell 1 has a temporal
\* component and cell 0 is the static-sky cell that corresponds to it.
is_temporal_cell(cell_id) == cell_id = 1
static_cell_for_cell(cell_id) == 0

\* ---------------------------------------------------------------- helpers
Max2(a, b) == IF a >= b THEN a ELSE b
SeqMax(s) == CHOOSE m \in {s[j] : j \in DOMAIN s} : \A j \in DOMAIN s : s[j] <= m
Range(s) == {s[j] : j \in DOMAIN s}

\* The positions of s that satisfy the mask, in increasing order.
RECURSIVE Where(_, _)
Where(s, n) ==
    IF n = 0 THEN <<>>
    ELSE IF s[n] THEN Append(Where(s, n - 1), n) ELSE Where(s, n - 1)

\* a[mask]: the elements of a at the positions sel.
Take(a, sel) == [j \in 1..Len(sel) |-> a[sel[j]]]

\* The rank (1-based) of position j among the positions sel.
RankIn(sel, j) == CHOOSE r \in 1..Len(sel) : sel[r] = j

\* len(ColGroup) (module colgroup, imported at line 21): the number of rows,
\* 0 for a ColGroup without columns.
ColGroupLen(cg) ==
    IF DOMAIN cg = {} THEN 0 ELSE Len(cg[CHOOSE c \in DOMAIN cg : TRUE])

EmptyCols == [c \in {} |-> <<>>]

\* np.resize / ndarray.resize of a row buffer to n rows, zero-filled.
Resize(rows, n, g) ==
    [j \in 1..n |-> IF j <= Len(rows) THEN rows[j] ELSE ZeroRow(g)]

\* ------------------------------------------------------------------ blobs
\* A blob value is a Python object: its identity, which id() orders, and its
\* content, which is what a VLArray stores. The caller's objects are None and
\* the objects Obj(i); an object read from a VLArray is a new object, except
\* that a stored None is read as None.
None == [ident |-> <<"None", 0>>, val |-> 0]
Obj(i) == [ident |-> <<"new", i>>, val |-> i]

\* barray[r] instantiated: the object for the reference r of the VLArray
\* barray of the row group kind.
LoadObj(barray, r, kind) ==
    IF barray[r + 1] = None.val THEN None
    ELSE [ident |-> <<kind, r>>, val |-> barray[r + 1]]

\* _smart_load_blobs: one object for each distinct reference; a negative
\* reference fails the assertion of line 1189, one past the end of the
\* array raises.
smart_load_blobs(barray, refs, kind) ==
    IF \E j \in DOMAIN refs : refs[j] < 0 \/ refs[j] >= Len(barray)
    THEN [raised |-> TRUE, blobs |-> <<>>]
    ELSE [raised |-> FALSE,
          blobs |-> [j \in DOMAIN refs |-> LoadObj(barray, refs[j], kind)]]

\* np.resize(bb, n) followed by bb[len0:] = None (lines 1034-1036).
ResizeBlobs(bb, n) == [j \in 1..n |-> IF j <= Len(bb) THEN bb[j] ELSE None]

\* a[idx] = v of numpy, for an array a of n elements: v has as many elements
\* as idx or one element, and idx stays inside a; otherwise it raises.
AssignOk(n, idx, v) ==
    /\ \A j \in DOMAIN idx : idx[j] \in 1..n
    /\ Len(v) = Len(idx) \/ Len(v) = 1

Assign(a, idx, v) ==
    [m \in DOMAIN a |->
        LET js == {j \in DOMAIN idx : idx[j] = m} IN
        IF js = {} THEN a[m]
        ELSE LET j == CHOOSE x \in js : \A y \in js : y <= x IN
             IF Len(v) = 1 THEN v[1] ELSE v[j]]

vl_truncate0(barray) == SubSeq(barray, 1, 0)

\* VLArray.truncate(1): the sentinel stays (line 1040).
vl_truncate(barray) == SubSeq(barray, 1, 1)

\* ------------------------------------------------------------ tablet store
NoGroup == [present |-> FALSE, table |-> <<>>, seq |-> 0, blobs |-> EmptyCols]
NoTablet == [exists |-> FALSE, main |-> NoGroup, cached |-> NoGroup]

\* The row group _get_row_group creates: an empty table, in the main group of
\* the primary cgroup the sequence array [1], and for every blob column a
\* VLArray that holds None at index 0 (lines 626-645).
NewGroup(group, g) ==
    [present |-> TRUE, table |-> <<>>,
     seq |-> IF group = "main" /\ g = primary_cgroup THEN 1 ELSE 0,
     blobs |-> [col \in Blobs(g) |-> <<None.val>>]]

\* getattr(g, '_seq_' + key, None) is an array
HasSeq(group, g) == group = "main" /\ g = primary_cgroup

get_row_group(tb, group, g) ==
    IF tb[group].present THEN tb ELSE [tb EXCEPT ![group] = NewGroup(group, g)]

\* _open_tablet(mode='w'): a missing file is created with its main group.
open_tablet_w(tb, g) ==
    IF tb.exists THEN tb
    ELSE [exists |-> TRUE, main |-> NewGroup("main", g), cached |-> NoGroup]

VARIABLES
    tablets,    \* tablets[c][g]: the tablet file of cell c, cgroup g
    lockfile,   \* lockfile[c]: the process that created c's lockfile, or NoProc
    pc,         \* pc[p]: where process p is in its call
    result,     \* result[p]: how p's call ended
    lock,       \* lock[p]: the cell whose lockfile p's call holds, or NoCell
    fp,         \* fp[p]: the cgroup whose tablet p has open for writing, or ""
    nrows_,     \* nrows_[p]: Table._nrows of p's Table instance
    loc,        \* loc[p]: the local variables of p's call; with them cols_,
                \* the columns as passed, and, as history where a
                \* specification records it, the tablets (before) and
                \* Table._nrows (nrows0) when the call began
    ncalls,     \* the calls begun so far
    rd,         \* the reader: where it is in its fetch_tablet call, the cell
                \* it read and what the read returned
    self_cgroups,         \* Table._cgroups: the (name, schema) pairs, in order
    self_primary_cgroup,  \* Table.primary_cgroup, "" for None
    self_columns,         \* Table.columns: the column records, in order
    schema_cfg,           \* the cgroups of the file schema.cfg
    self_aliases,         \* Table._aliases: alias -> column name
    self_fgroups,         \* Table._fgroups: file group -> its definition
    self_filters,         \* Table._filters: the default PyTables filters
    self_nrows,           \* Table._nrows of the instance the schema calls
                          \* are made on
    self_pix,             \* Table.pix: level, t0, dt
    schema_data,          \* the other keys of the file schema.cfg: name,
                          \* nrows, level, t0, dt, fgroups, filters, aliases
    sres,                 \* how the last schema call ended
    self_tablet_tree,     \* Table.tablet_tree: the cell tree of the instance
    tablet_tree_pkl,      \* the file tablet_tree.pkl
    pkl_newer,            \* tablet_tree.pkl was written after schema.cfg
    cells_got             \* what the get_cells call in progress returned

\* The variables of the schema.
svars == <<self_cgroups, self_primary_cgroup, self_columns, schema_cfg,
           self_aliases, self_fgroups, self_filters, self_nrows, self_pix,
           schema_data, sres>>

vars == <<tablets, lockfile, pc, result, lock, fp, nrows_, loc, ncalls, rd,
          self_cgroups, self_primary_cgroup, self_columns, schema_cfg,
          self_aliases, self_fgroups, self_filters, self_nrows, self_pix,
          schema_data, sres,
          self_tablet_tree, tablet_tree_pkl, pkl_newer, cells_got>>

\* The variables of the cell tree.
tvars == <<self_tablet_tree, tablet_tree_pkl, pkl_newer, cells_got>>

\* No cell tree: the attribute or the file is not there; no call in progress.
NoTree == [present |-> FALSE, cells |-> {}]

\* The variables of the writers.
wvars == <<tablets, lockfile, pc, result, lock, fp, nrows_, loc, ncalls>>

\* The reader between two calls.
NoRead == [pc |-> "idle", cell |-> NoCell, raised |-> FALSE, rows |-> <<>>]

\* ------------------------------------------------------- schema mutation
\* A cgroup schema is a dict: 'columns', a list of (name, dtype) pairs, and,
\* where declared, 'primary_key', 'spatial_keys', 'temporal_key' and 'blobs'
\* (here the set of the blob columns' names). The two position columns of
\* 'spatial_keys' are modelled by the one column spatial_key.
PseudoNames == {"_PSEUDOCOLS", "_c"}

\* cgroup[0] == '_'
is_pseudotablet(cgroup) == cgroup \in PseudoNames

\* The pseudo-cgroup _load_schema adds in memory (lines 387-394).
PSEUDOCOLS ==
    [name |-> "_PSEUDOCOLS",
     schema |-> [columns |-> << <<"_CACHED", "bool">>, <<"_ROWIDX", "u8">>,
                                <<"_ROWID", "u8">> >>]]

\* cgroup in self._cgroups
HasCgroup(cgs, cgroup) == \E k \in DOMAIN cgs : cgs[k].name = cgroup

\* self._cgroups[cgroup] = schema, on an OrderedDict: an existing name keeps
\* its place, a new one goes last.
SetCgroup(cgs, cgroup, schema) ==
    IF HasCgroup(cgs, cgroup)
    THEN [k \in DOMAIN cgs |->
            IF cgs[k].name = cgroup THEN [name |-> cgroup, schema |-> schema]
            ELSE cgs[k]]
    ELSE Append(cgs, [name |-> cgroup, schema |-> schema])

\* colname in self.columns
HasColumn(cols, colname) == \E k \in DOMAIN cols : cols[k].name = colname

\* The dtype of the column colname is int64.
IsInt64(cols, colname) ==
    \E k \in DOMAIN cols : cols[k].name = colname /\ cols[k].dtype = "i8"

\* Lines 437-442: the columns of one cgroup enter self.columns; a name that
\* is already there fails the assertion.
RECURSIVE AddColumns(_, _, _, _)
AddColumns(acc, columns, cgroup, i) ==
    IF i > Len(columns) THEN acc
    ELSE IF HasColumn(acc.columns, columns[i][1])
    THEN [acc EXCEPT !.ok = FALSE]
    ELSE AddColumns([acc EXCEPT !.columns =
                        Append(@, [name |-> columns[i][1], dtype |-> columns[i][2],
                                   cgroup |-> cgroup, is_blob |-> FALSE])],
                    columns, cgroup, i + 1)

\* Lines 437-463 for one cgroup: its columns, then the primary cgroup's keys
\* or the assertions on the other cgroups, then its blob columns. The third
\* assertion of the else branch looks for the name 'temporak_key' (line 458).
RebuildCgroup(acc, e) ==
    LET schema == e.schema
        a1     == AddColumns([ok |-> TRUE, columns |-> acc.columns],
                             schema.columns, e.name, 1)
        first  == acc.primary = "" /\ ~is_pseudotablet(e.name)
        keysok == /\ "primary_key" \in DOMAIN schema
                        => HasColumn(a1.columns, schema.primary_key)
                  /\ "temporal_key" \in DOMAIN schema
                        => HasColumn(a1.columns, schema.temporal_key)
                  /\ "spatial_keys" \in DOMAIN schema
                        => /\ HasColumn(a1.columns, schema.spatial_keys[1])
                           /\ HasColumn(a1.columns, schema.spatial_keys[2])
        others == /\ "primary_key" \notin DOMAIN schema
                  /\ "spatial_keys" \notin DOMAIN schema
                  /\ "temporak_key" \notin DOMAIN schema
        blobs  == IF "blobs" \in DOMAIN schema THEN schema.blobs ELSE {}
        blobok == \A b \in blobs : IsInt64(a1.columns, b)
        prim   == IF first THEN e.name ELSE acc.primary
    IN  IF ~a1.ok
        THEN [ok |-> FALSE, columns |-> a1.columns, primary |-> acc.primary]
        ELSE IF first /\ ~keysok
        THEN [ok |-> FALSE, columns |-> a1.columns, primary |-> prim]
        ELSE IF ~first /\ ~others
        THEN [ok |-> FALSE, columns |-> a1.columns, primary |-> prim]
        ELSE [ok |-> blobok,
              columns |-> [k \in DOMAIN a1.columns |->
                             IF a1.columns[k].name \in blobs /\ blobok
                             THEN [a1.columns[k] EXCEPT !.is_blob = TRUE]
                             ELSE a1.columns[k]],
              primary |-> prim]

\* _rebuild_internal_schema: self.columns and self.primary_cgroup from
\* self._cgroups, up to the first assertion that fails.
RECURSIVE RebuildFrom(_, _, _)
RebuildFrom(acc, cgs, i) ==
    IF i > Len(cgs) \/ ~acc.ok THEN acc
    ELSE RebuildFrom(RebuildCgroup(acc, cgs[i]), cgs, i + 1)

rebuild_internal_schema(cgs) ==
    RebuildFrom([ok |-> TRUE, columns |-> <<>>, primary |-> ""], cgs, 1)

\* Every cgroup is written.
store_schema_all(cgs) == cgs

\* _store_schema writes the cgroups whose name does not begin with '_'.
RECURSIVE store_schema(_)
store_schema(cgs) ==
    IF cgs = <<>> THEN <<>>
    ELSE IF is_pseudotablet(cgs[1].name) THEN store_schema(Tail(cgs))
    ELSE <<cgs[1]>> \o store_schema(Tail(cgs))

\* json.loads(json.dumps(.)) of a file group definition: the tuple of its
\* 'filter' entry (unpacked at line 151) comes back as a list.
json_fgroupdef(fgroupdef) ==
    [f \in DOMAIN fgroupdef |->
        IF f = "filter" THEN [fgroupdef[f] EXCEPT !.seq = "list"]
        ELSE fgroupdef[f]]

\* _store_schema, the keys other than 'cgroups' (lines 411-418) as
\* json.loads reads them back; the file is written from the in-memory state.
store_data(st) ==
    [name |-> st.data.name,
     level |-> st.pix.level, t0 |-> st.pix.t0, dt |-> st.pix.dt,
     nrows |-> st.nrows,
     fgroups |-> [g \in DOMAIN st.fgroups |-> json_fgroupdef(st.fgroups[g])],
     filters |-> st.filters,
     aliases |-> st.aliases]

\* Lines 522-531: every column of dtype 'O8' becomes an 'i8' column named in
\* schema['blobs'].
ConvertBlobs(schema) ==
    LET cols == schema.columns
        o8   == {cols[k][1] : k \in {j \in DOMAIN cols : cols[j][2] = "O8"}}
        old  == IF "blobs" \in DOMAIN schema THEN schema.blobs ELSE {}
    IN  IF o8 = {} THEN schema
        ELSE [f \in DOMAIN schema \cup {"blobs"} |->
                IF f = "columns"
                THEN [k \in DOMAIN cols |->
                        IF cols[k][2] = "O8" THEN <<cols[k][1], "i8">> ELSE cols[k]]
                ELSE IF f = "blobs" THEN old \cup o8
                ELSE schema[f]]

\* The assertion of line 543 passes: every name of schema['blobs'] is a
\* column of the schema, of dtype int64.
BlobsInt64(schema) ==
    "blobs" \in DOMAIN schema =>
        \A b \in schema.blobs :
            \E k \in DOMAIN schema.columns :
                schema.columns[k][1] = b /\ schema.columns[k][2] = "i8"

\* create_cgroup(cgroup, schema, ignore_if_exists) on the schema state st:
\* the state it leaves, with res "error" where it raised.
create_cgroup(st, cgroup, schema, ignore_if_exists) ==
    LET s1    == ConvertBlobs(schema)
        prim1 == IF "primary_key" \in DOMAIN s1 THEN cgroup ELSE st.primary
        cgs1  == SetCgroup(st.cgroups, cgroup, s1)
        r     == rebuild_internal_schema(cgs1)
    IN  IF HasCgroup(st.cgroups, cgroup) /\ ~ignore_if_exists
        THEN [st EXCEPT !.res = "error"]
        ELSE IF is_pseudotablet(cgroup)
        THEN [st EXCEPT !.res = "error"]
        ELSE IF "spatial_keys" \in DOMAIN s1 /\ "primary_key" \notin DOMAIN s1
        THEN [st EXCEPT !.res = "error"]
        ELSE IF "primary_key" \in DOMAIN s1 /\ st.primary # ""
        THEN [st EXCEPT !.res = "error"]
        ELSE IF ~BlobsInt64(s1)
        THEN [st EXCEPT !.primary = prim1, !.res = "error"]
        ELSE IF ~r.ok
        THEN [st EXCEPT !.cgroups = cgs1, !.primary = r.primary,
                        !.columns = r.columns, !.res = "error"]
        ELSE [st EXCEPT !.cgroups = cgs1, !.primary = r.primary,
                        !.columns = r.columns, !.cfg = store_schema(cgs1),
                        !.data = store_data(st), !.res = "ok"]

\* _load_schema: the cgroups of schema.cfg, the pseudo-cgroup after them, and
\* the internal schema rebuilt.
load_schema(st) ==
    LET cgs == SetCgroup(st.cfg, PSEUDOCOLS.name, PSEUDOCOLS.schema)
        r   == rebuild_internal_schema(cgs)
    IN  [st EXCEPT !.nrows = st.data.nrows,
                   !.pix = [level |-> st.data.level, t0 |-> st.data.t0,
                            dt |-> st.data.dt],
                   !.cgroups = cgs,
                   !.fgroups = st.data.fgroups,
                   !.filters = st.data.filters,
                   !.aliases = st.data.aliases,
                   !.primary = r.primary, !.columns = r.columns,
                   !.res = IF r.ok THEN "ok" ELSE "error"]

\* _store_schema: schema.cfg is rewritten from the in-memory state.
store_schema_file(st) ==
    [st EXCEPT !.cfg = store_schema(st.cgroups), !.data = store_data(st)]

\* define_alias(alias, colname), lines 803-807.
define_alias(st, alias, colname) ==
    IF ~HasColumn(st.columns, colname) THEN [st EXCEPT !.res = "error"]
    ELSE LET st1 == [st EXCEPT !.aliases = (alias :> colname) @@ @]
         IN  [st1 EXCEPT !.cfg = store_schema(st1.cgroups),
                         !.data = store_data(st1), !.res = "ok"]

\* _get_schema(cgroup): self._cgroups[cgroup]; a KeyError if it is not there.
get_schema(cgs, cgroup) ==
    IF HasCgroup(cgs, cgroup)
    THEN [raised |-> FALSE,
          schema |-> cgs[CHOOSE k \in DOMAIN cgs : cgs[k].name = cgroup].schema]
    ELSE [raised |-> TRUE, schema |-> << >>]

\* resolve_alias(colname), lines 825-836: the five built-in aliases where the
\* primary cgroup's schema has the key, then the user aliases.
resolve_alias(st, colname) ==
    LET g      == get_schema(st.cgroups, st.primary)
        schema == g.schema
    IN  IF g.raised THEN [raised |-> TRUE, name |-> colname]
        ELSE [raised |-> FALSE,
              name |->
                IF colname = "_ID" /\ "primary_key" \in DOMAIN schema
                THEN schema.primary_key
                ELSE IF colname = "_LON" /\ "spatial_keys" \in DOMAIN schema
                THEN schema.spatial_keys[1]
                ELSE IF colname = "_LAT" /\ "spatial_keys" \in DOMAIN schema
                THEN schema.spatial_keys[2]
                ELSE IF colname = "_TIME" /\ "temporal_key" \in DOMAIN schema
                THEN schema.temporal_key
                ELSE IF colname = "_EXP" /\ "exposure_key" \in DOMAIN schema
                THEN schema.exposure_key
                ELSE IF colname \in DOMAIN st.aliases THEN st.aliases[colname]
                ELSE colname]

\* define_fgroup(fgroup, fgroupdef), lines 227-228.
define_fgroup(st, fgroup, fgroupdef) ==
    LET st1 == [st EXCEPT !.fgroups = (fgroup :> fgroupdef) @@ @]
    IN  [st1 EXCEPT !.cfg = store_schema(st1.cgroups),
                    !.data = store_data(st1), !.res = "ok"]

\* set_default_filters(**filters), lines 218-219.
set_default_filters(st, filters) ==
    LET st1 == [st EXCEPT !.filters = filters]
    IN  [st1 EXCEPT !.cfg = store_schema(st1.cgroups),
                    !.data = store_data(st1), !.res = "ok"]

\* The schema of the table the appends and updates are made to: the cgroups
\* CGroups, as two create_cgroup calls on a new table leave them.
NewTable ==
    [cgroups |-> <<PSEUDOCOLS>>, primary |-> "",
     columns |-> rebuild_internal_schema(<<PSEUDOCOLS>>).columns,
     cfg |-> <<>>,
     aliases |-> << >>, fgroups |-> << >>, filters |-> << >>,
     nrows |-> 0, pix |-> [level |-> 7, t0 |-> 54335, dt |-> 1],
     data |-> [name |-> "table", level |-> 7, t0 |-> 54335, dt |-> 1,
               nrows |-> 0, fgroups |-> << >>, filters |-> << >>,
               aliases |-> << >>],
     res |-> "ok"]

PriSchema ==
    [columns |-> << <<primary_key, "u8">>, <<spatial_key, "f8">>, <<"b", "O8">> >>,
     primary_key |-> primary_key,
     spatial_keys |-> <<spatial_key, spatial_key>>]

AuxSchema == [columns |-> << <<"x", "f8">>, <<"c", "O8">> >>]

TableSchema ==
    create_cgroup(create_cgroup(NewTable, CGroups[1], PriSchema, FALSE),
                  CGroups[2], AuxSchema, FALSE)

IdleLoc ==
    [op |-> "none", group |-> "main", update |-> FALSE, cell_id |-> NoCell,
     cols |-> EmptyCols, cells |-> <<>>, unique_cells |-> <<>>, k |-> 0,
     cur_cell_id |-> NoCell, cg |-> 0, nrows |-> 0, nnew |-> 0,
     idx |-> <<>>, slice |-> TRUE, rows |-> <<>>, ntot |-> 0,
     cols_ |-> EmptyCols, before |-> <<>>, nrows0 |-> 0, colsB |-> EmptyCols]

Init ==
    /\ tablets = [c \in Cells |-> [g \in Range(CGroups) |-> NoTablet]]
    /\ lockfile = [c \in Cells |-> NoProc]
    /\ pc = [p \in Procs |-> "idle"]
    /\ result = [p \in Procs |-> "none"]
    /\ lock = [p \in Procs |-> NoCell]
    /\ fp = [p \in Procs |-> ""]
    /\ nrows_ = [p \in Procs |-> 0]
    /\ rd = NoRead
    /\ self_cgroups = TableSchema.cgroups
    /\ self_primary_cgroup = TableSchema.primary
    /\ self_columns = TableSchema.columns
    /\ schema_cfg = TableSchema.cfg
    /\ self_aliases = TableSchema.aliases
    /\ self_fgroups = TableSchema.fgroups
    /\ self_filters = TableSchema.filters
    /\ self_nrows = TableSchema.nrows
    /\ self_pix = TableSchema.pix
    /\ schema_data = TableSchema.data
    /\ sres = "ok"
    /\ loc = [p \in Procs |-> IdleLoc]
    /\ ncalls = 0
    /\ self_tablet_tree = NoTree
    /\ tablet_tree_pkl = NoTree
    /\ pkl_newer = FALSE
    /\ cells_got = NoTree

\* ------------------------------------------------------------ append: begin
\* cols after lines 869-882: a missing key column is added as zeros; supplied
\* bare cell-IDs are masked with 0xFFFFFFFF00000000.
PrepCols(a) ==
    LET n == ColGroupLen(a.cols) IN
    IF primary_key \notin DOMAIN a.cols
    THEN a.cols @@ (primary_key :> [j \in 1..n |-> 0])
    ELSE [a.cols EXCEPT ![primary_key] =
            [j \in 1..n |-> IF is_cell_id(@[j]) THEN @[j] - obj_part(@[j]) ELSE @[j]]]

BeginOkAnyKey(a) ==
    LET c0 == PrepCols(a)
        key == c0[primary_key] IN
    /\ ~a.update \/ a.group # "cached"
    /\ DOMAIN a.cols # {}
    /\ a.cell_id # NoCell => a.group # "main"
    /\ (a.cell_id = NoCell /\ \E j \in DOMAIN key : key[j] = 0) =>
          /\ a.group = "main"
          /\ spatial_key \in DOMAIN a.cols

\* The assertions of lines 859-913 all pass.
BeginOk(a) ==
    LET c0 == PrepCols(a)
        key == c0[primary_key] IN
    /\ ~a.update \/ a.group # "cached"
    /\ DOMAIN a.cols # {}
    /\ primary_key \in DOMAIN a.cols =>
          \/ \A j \in DOMAIN key : is_cell_id(key[j])
          \/ a.update
          \/ a.cell_id # NoCell
    /\ a.cell_id # NoCell => a.group # "main"
    /\ (a.cell_id = NoCell /\ \E j \in DOMAIN key : key[j] = 0) =>
          /\ a.group = "main"
          /\ spatial_key \in DOMAIN a.cols

\* cols after lines 904-920: keys equal to zero are set from the position.
KeyedCols(a) ==
    LET c0 == PrepCols(a) IN
    IF a.cell_id # NoCell THEN c0
    ELSE [c0 EXCEPT ![primary_key] =
            [j \in DOMAIN @ |->
                IF @[j] = 0 THEN obj_id_from_pos(c0[spatial_key][j]) ELSE @[j]]]

CellsByKey(a) ==
    LET key == KeyedCols(a)[primary_key] IN
    [j \in DOMAIN key |-> cell_for_id(key[j])]

\* cells (lines 895-923)
CellsOf(a) ==
    LET key == KeyedCols(a)[primary_key] IN
    [j \in DOMAIN key |-> IF a.cell_id # NoCell THEN a.cell_id ELSE cell_for_id(key[j])]

\* The orders list(set(cells)) may have.
Orders(S) ==
    {s \in UNION {[1..n -> S] : n \in {Cardinality(S)}} :
        \A i, j \in DOMAIN s : i # j => s[i] # s[j]}

\* The cells of the model hold every destination.
InModel(a) == BeginOk(a) => Range(CellsOf(a)) \subseteq Cells

AppendBegin(p, a, hist) ==
    /\ pc[p] = "idle"
    /\ ncalls < MaxCalls
    /\ ncalls' = ncalls + 1
    /\ InModel(a)
    /\ IF BeginOk(a)
       THEN /\ \E order \in Orders(Range(CellsOf(a))) :
                 loc' = [loc EXCEPT ![p] =
                    [IdleLoc EXCEPT !.op = "append", !.group = a.group,
                        !.update = a.update, !.cell_id = a.cell_id,
                        !.cols = KeyedCols(a), !.cells = CellsOf(a),
                        !.unique_cells = order, !.cols_ = a.cols,
                        !.before = IF hist THEN tablets ELSE <<>>,
                        !.nrows0 = IF hist THEN nrows_[p] ELSE 0]]
            /\ pc' = [pc EXCEPT ![p] = "locking"]
            /\ UNCHANGED result
       ELSE /\ loc' = [loc EXCEPT ![p] = [IdleLoc EXCEPT !.op = "append",
                        !.group = a.group, !.update = a.update,
                        !.cell_id = a.cell_id, !.cols = a.cols,
                        !.cols_ = a.cols]]
            /\ pc' = [pc EXCEPT ![p] = "done"]
            /\ result' = [result EXCEPT ![p] = "error"]
    /\ UNCHANGED <<tablets, lockfile, lock, fp, nrows_, rd, svars, tvars>>

\* ------------------------------------------------------------ cell locks
lockfile_ignored(c) == TRUE

lockfile_shared(c) == \A c2 \in Cells : lockfile[c2] = NoProc

\* /usr/bin/lockfile -r0: creates the lockfile atomically, or fails.
lockfile_free(c) == lockfile[c] = NoProc

ExhaustedLate(tried) == tried = LockTries + 1

\* for k in xrange(3600) ... else: raise: `tried` attempts have failed.
Exhausted(tried) == tried = LockTries

TryFirst(k, n) == 1

\* i = k % len(unique_cells) (line 934), as a position counted from 1.
TryIndex(k, n) == (k % n) + 1

\* One pass of the for loop of lines 933-947: the k-th attempt.
TryLock(p) ==
    /\ pc[p] = "locking"
    /\ LET L == loc[p]
           i == TryIndex(L.k, Len(L.unique_cells))
           c == L.unique_cells[i] IN
       IF lockfile_free(c)
       THEN /\ lockfile' = [lockfile EXCEPT ![c] = p]
            /\ lock' = [lock EXCEPT ![p] = c]
            /\ loc' = [loc EXCEPT ![p].cur_cell_id = c,
                                  ![p].unique_cells =
                                      [j \in 1..(Len(L.unique_cells) - 1) |->
                                          IF j < i THEN L.unique_cells[j]
                                          ELSE L.unique_cells[j + 1]],
                                  ![p].cg = 1]
            /\ pc' = [pc EXCEPT ![p] = "open"]
            /\ UNCHANGED result
       ELSE /\ loc' = [loc EXCEPT ![p].k = L.k + 1]
            /\ IF Exhausted(L.k + 1)
               THEN /\ pc' = [pc EXCEPT ![p] = "done"]
                    /\ result' = [result EXCEPT ![p] = "stuck"]
               ELSE UNCHANGED <<pc, result>>
            /\ UNCHANGED <<lockfile, lock>>
    /\ UNCHANGED <<tablets, fp, nrows_, ncalls, rd, svars, tvars>>

\* -------------------------------------------------- append: per-cell write
\* Mask for rows belonging to this cell (line 950), as positions.
InCell(L) == Where([j \in DOMAIN L.cells |-> L.cells[j] = L.cur_cell_id], Len(L.cells))

\* colsT (line 964): the input columns of cgroup g, masked to the cell.
ColsT(L, g) ==
    [col \in Columns(g) \cap DOMAIN L.cols |-> Take(L.cols[col], InCell(L))]

RaiseSeqNoStep(seq, i) == Max2(seq, SeqMax(i))

\* Line 978: the sequence is raised above every incoming obj_part.
RaiseSeq(seq, i) == Max2(seq, SeqMax(i) + 1)

AdvanceSeqNot(id0, nnk) == id0

\* Line 991: the sequence after nnk keys were generated from id0.
AdvanceSeq(id0, nnk) == id0 + nnk

\* Lines 986-994: rows with obj_part 0 get consecutive indices from id0.
GenKeys(keyT, id0) ==
    LET need == Where([j \in DOMAIN keyT |-> obj_part(keyT[j]) = 0], Len(keyT)) IN
    [j \in DOMAIN keyT |->
        IF obj_part(keyT[j]) = 0 THEN keyT[j] + (id0 + RankIn(need, j) - 1)
        ELSE keyT[j]]

\* id1.argsort(): ArgSort(s)[r] is the position in s of the r-th smallest.
ArgSort(s) ==
    [r \in DOMAIN s |->
        CHOOSE m \in DOMAIN s :
            Cardinality({n \in DOMAIN s : s[n] < s[m] \/ (s[n] = s[m] /\ n < m)}) = r - 1]

\* np.searchsorted(sorted, v) + 1: the first position whose element is >= v.
SearchSorted(sorted, v) == Cardinality({n \in DOMAIN sorted : sorted[n] < v}) + 1

ClassifySorted(id1, id2) ==
    LET ii     == ArgSort(id1)
        sorted == [r \in DOMAIN id1 |-> id1[ii[r]]]
        idx0   == [j \in DOMAIN id2 |-> SearchSorted(sorted, id2[j])]
        app    == [j \in DOMAIN id2 |->
                     IF idx0[j] <= Len(id1) THEN sorted[idx0[j]] # id2[j] ELSE TRUE]
        new    == Where(app, Len(id2))
    IN  [slice |-> FALSE,
         idx |-> [j \in DOMAIN id2 |->
                    IF app[j] THEN Len(id1) + RankIn(new, j) ELSE idx0[j]],
         nnew |-> Len(new)]

\* Lines 1012-1022, the general merge: idx[j] is the target row of input j,
\* the position of the stored row with its key in the stored order, or a
\* position past the stored rows, in input order.
ClassifyMerge(id1, id2) ==
    LET ii     == ArgSort(id1)
        sorted == [r \in DOMAIN id1 |-> id1[ii[r]]]
        idx0   == [j \in DOMAIN id2 |-> SearchSorted(sorted, id2[j])]
        app    == [j \in DOMAIN id2 |->
                     IF idx0[j] <= Len(id1) THEN sorted[idx0[j]] # id2[j] ELSE TRUE]
        new    == Where(app, Len(id2))
    IN  [slice |-> FALSE,
         idx |-> [j \in DOMAIN id2 |->
                    IF app[j] THEN Len(id1) + RankIn(new, j) ELSE ii[idx0[j]]],
         nnew |-> Len(new)]

\* np.min(idx) == len(id1) (line 1009): every incoming key is above every
\* stored key.
PureAppend(id1, id2) ==
    \A j \in DOMAIN id2 : SearchSorted(id1, id2[j]) = Len(id1) + 1

\* Lines 999-1022: where the incoming keys id2 map among the stored keys id1.
\* slice: the pure-append fast path; else idx[j] is the target row of input j.
Classify(id1, id2) ==
    IF PureAppend(id1, id2)
    THEN [slice |-> TRUE, idx |-> <<>>, nnew |-> 0]
    ELSE ClassifyMerge(id1, id2)

\* rows[colname][idx] = colsT[colname] for the columns of colsT (line 1067);
\* of two inputs with the same target the later one stays, and a column of
\* one element is broadcast.
Overlay(rows, idx, colsT) ==
    [m \in DOMAIN rows |->
        LET js == {j \in DOMAIN idx : idx[j] = m} IN
        IF js = {} THEN rows[m]
        ELSE LET j == CHOOSE x \in js : \A y \in js : y <= x IN
             [col \in DOMAIN rows[m] |->
                 IF col \in DOMAIN colsT
                 THEN IF Len(colsT[col]) = 1 THEN colsT[col][1] ELSE colsT[col][j]
                 ELSE rows[m][col]]]

\* None of the assignments of line 1067 raises.
OverlayOk(rows, idx, colsT) ==
    \A col \in DOMAIN colsT : AssignOk(Len(rows), idx, colsT[col])

\* _fetch_blobs_fp(fp, column, refs, include_cached) on the tablet tb: the
\* objects for the references, the negative ones from the cached group when
\* include_cached is set and the group exists (lines 1247-1258).
fetch_blobs_fp(tb, column, refs, include_cached) ==
    IF ~tb.main.present THEN [raised |-> TRUE, blobs |-> <<>>]
    ELSE IF include_cached /\ tb.cached.present
    THEN LET pos == Where([j \in DOMAIN refs |-> refs[j] >= 0], Len(refs))
             neg == Where([j \in DOMAIN refs |-> refs[j] < 0], Len(refs))
             r1  == smart_load_blobs(tb.main.blobs[column], Take(refs, pos), "main")
             r2  == smart_load_blobs(tb.cached.blobs[column],
                                     [j \in 1..Len(neg) |-> -refs[neg[j]]], "cached")
         IN  IF r1.raised \/ r2.raised THEN [raised |-> TRUE, blobs |-> <<>>]
             ELSE [raised |-> FALSE,
                   blobs |-> [j \in DOMAIN refs |->
                                IF refs[j] >= 0 THEN r1.blobs[RankIn(pos, j)]
                                ELSE r2.blobs[RankIn(neg, j)]]]
    ELSE smart_load_blobs(tb.main.blobs[column], refs, "main")

\* The body of the cgroup loop up to the row buffer (lines 958-1067) for the
\* call state L and the tablet tb: the tablet and call state it leaves, and
\* whether an assertion failed or an assignment raised. On the merge path
\* the blobs of the old rows are loaded, the incoming ones laid over them and
\* the VLArray cut back to its sentinel (lines 1031-1040); the table is
\* truncated at line 1028, before anything can raise.
OpenBody(L, tb, g) ==
    LET grp   == L.group
        tb1   == get_row_group(open_tablet_w(tb, g), grp, g)
        t     == tb1[grp].table
        prim  == g = primary_cgroup
        colsT == ColsT(L, g)
        keyT  == colsT[primary_key]
        i     == [j \in DOMAIN keyT |-> obj_part(keyT[j])]
        needs == \E j \in DOMAIN i : i[j] = 0
        id0   == IF HasSeq(grp, g) THEN RaiseSeq(tb1[grp].seq, i) ELSE 0
        fail  == prim /\ needs /\ (grp = "cached" \/ L.cell_id # NoCell)
        keyT2 == IF prim /\ needs THEN GenKeys(keyT, id0) ELSE keyT
        seq2  == IF ~prim \/ ~HasSeq(grp, g) THEN tb1[grp].seq
                 ELSE IF needs
                      THEN AdvanceSeq(id0, Cardinality({j \in DOMAIN i : i[j] = 0}))
                 ELSE id0
        sel   == InCell(L)
        cols2 == IF prim /\ needs
                 THEN [L.cols EXCEPT ![primary_key] =
                         [j \in DOMAIN @ |->
                             IF L.cells[j] = L.cur_cell_id
                             THEN keyT2[RankIn(sel, j)] ELSE @[j]]]
                 ELSE L.cols
        cls   == IF prim /\ L.update
                 THEN Classify([m \in DOMAIN t |-> t[m][primary_key]], keyT2)
                 ELSE [slice |-> L.slice, idx |-> L.idx, nnew |-> L.nnew]
        nrows == IF prim THEN Len(t) ELSE L.nrows
        merge == L.update /\ ~cls.slice
        colsW == IF prim THEN [colsT EXCEPT ![primary_key] = keyT2] ELSE colsT
        nnew  == IF merge THEN cls.nnew ELSE ColGroupLen(colsW)
        buf   == IF merge THEN Resize(t, nrows + nnew, g)
                 ELSE [m \in 1..nnew |-> ZeroRow(g)]
        idx   == IF merge THEN cls.idx ELSE [m \in 1..nnew |-> m]
        colsB == [col \in DOMAIN colsT \cap Blobs(g) |-> colsT[col]]
        colsR == [col \in DOMAIN colsW \ Blobs(g) |-> colsW[col]]
        old   == [col \in DOMAIN colsB |->
                    fetch_blobs_fp(tb1, col, [m \in DOMAIN t |-> t[m][col]], FALSE)]
        bfail == merge /\ \E col \in DOMAIN colsB :
                              \/ old[col].raised
                              \/ ~AssignOk(nrows + nnew, idx, colsB[col])
        bb    == [col \in DOMAIN colsB |->
                    Assign(ResizeBlobs(old[col].blobs, nrows + nnew), idx, colsB[col])]
        rfail == ~OverlayOk(buf, idx, colsR)
        tb2   == [tb1 EXCEPT ![grp].seq = seq2,
                             ![grp].table = IF merge THEN <<>> ELSE @]
        tb3   == [tb2 EXCEPT ![grp].blobs =
                     [col \in DOMAIN @ |->
                         IF merge /\ col \in DOMAIN colsB
                         THEN vl_truncate(@[col]) ELSE @[col]]]
    IN  IF fail
        THEN [fail |-> TRUE, tb |-> tb1, L |-> L]
        ELSE IF bfail
        THEN [fail |-> TRUE, tb |-> tb2, L |-> L]
        ELSE IF rfail
        THEN [fail |-> TRUE, tb |-> tb3, L |-> L]
        ELSE [fail |-> FALSE,
              tb |-> tb3,
              L |-> [L EXCEPT !.cols = cols2, !.nrows = nrows, !.nnew = nnew,
                              !.idx = idx, !.slice = ~merge,
                              !.colsB = IF merge THEN bb ELSE colsB,
                              !.rows = Overlay(buf, idx, colsR)]]

\* Lines 958-1067: open the tablet of the current cgroup and build its rows.
OpenCgroup(p) ==
    /\ pc[p] = "open"
    /\ LET L == loc[p]
           c == L.cur_cell_id
           g == CGroups[L.cg]
           r == OpenBody(L, tablets[c][g], g) IN
       /\ tablets' = [tablets EXCEPT ![c][g] = r.tb]
       /\ fp' = [fp EXCEPT ![p] = g]
       /\ loc' = [loc EXCEPT ![p] = r.L]
       /\ IF r.fail
          THEN /\ pc' = [pc EXCEPT ![p] = "done"]
               /\ result' = [result EXCEPT ![p] = "error"]
          ELSE /\ pc' = [pc EXCEPT ![p] = "write"]
               /\ UNCHANGED result
    /\ UNCHANGED <<lockfile, lock, nrows_, ncalls, rd, svars, tvars>>

\* The identities of the objects of a blob column, and the orders id() may
\* put them in: the addresses of the objects are the interpreter's choice.
Idents(colB) == {colB[j].ident : j \in DOMAIN colB}

Ranks(U) ==
    {f \in [U -> 1..Cardinality(U)] : \A u, v \in U : u # v => f[u] # f[v]}

\* np.unique(idents, return_index=True, return_inverse=True) (line 1078) for
\* the order rank of the identities: the position of an identity among the
\* sorted distinct identities of the column, the objects in that order, the
\* index of the first occurrence of each, and for every row the position of
\* its object.
SortedPos(colB, rank, u) ==
    Cardinality({v \in Idents(colB) : rank[v] <= rank[u]})

UniqueObjs(colB, rank) ==
    [k \in 1..Cardinality(Idents(colB)) |->
        CHOOSE o \in Range(colB) : SortedPos(colB, rank, o.ident) = k]

UniqueIndex(colB, rank) ==
    [k \in 1..Cardinality(Idents(colB)) |->
        CHOOSE j \in DOMAIN colB :
            /\ SortedPos(colB, rank, colB[j].ident) = k
            /\ \A i \in DOMAIN colB : colB[i].ident = colB[j].ident => j <= i]

UniqueInverse(colB, rank) ==
    [j \in DOMAIN colB |-> SortedPos(colB, rank, colB[j].ident) - 1]

\* uobjs[0] is None (line 1089)
NoneFirst(colB, rank) ==
    colB # <<>> /\ UniqueObjs(colB, rank)[1] = None

\* uobjs after line 1091: the objects to store.
StoredObjs(colB, rank) ==
    IF NoneFirst(colB, rank) THEN Tail(UniqueObjs(colB, rank))
    ELSE UniqueObjs(colB, rank)

StoredValsTwice(colB, rank) ==
    [k \in DOMAIN StoredObjs(colB, rank) |-> StoredObjs(colB, rank)[k].val]
    \o [k \in DOMAIN StoredObjs(colB, rank) |-> StoredObjs(colB, rank)[k].val]

\* Lines 1100-1103: what barray.append stores for the objects of uobjs, in
\* their order.
StoredVals(colB, rank) ==
    [k \in DOMAIN StoredObjs(colB, rank) |-> StoredObjs(colB, rank)[k].val]

\* ito (lines 1081-1093): the position of the row's object, offset by the
\* length of the VLArray; when None sorts first, the positions move down by
\* one and the rows at bsize - 1 get the reference 0.
BlobRefs(colB, bsize, rank) ==
    [j \in DOMAIN colB |->
        LET ito == UniqueInverse(colB, rank)[j] + bsize IN
        IF NoneFirst(colB, rank)
        THEN IF ito - 1 = bsize - 1 THEN 0 ELSE ito - 1
        ELSE ito]

\* The assertion of lines 1096-1097: every reference leads back to a value
\* equal to the row's; a negative index counts from the end of uobjs2.
BlobCheck(colB, bsize, rank) ==
    LET uobjs2 == Append(StoredObjs(colB, rank), None)
        refs   == BlobRefs(colB, bsize, rank)
    IN  \A j \in DOMAIN colB :
            LET k  == IF refs[j] # 0 THEN refs[j] - bsize ELSE Len(uobjs2) - 1
                k2 == IF k < 0 THEN k + Len(uobjs2) ELSE k
            IN  /\ k2 + 1 \in DOMAIN uobjs2
                /\ uobjs2[k2 + 1].val = colB[j].val

\* Lines 1069-1111: the blob loop, t.append(rows) and fp.close(). For every
\* blob column of the batch the distinct objects go to the VLArray and their
\* references into the rows; line 1078 assigns the first-occurrence indices
\* to idx, the variable the next cgroup's update reads.
WriteCgroup(p) ==
    /\ pc[p] = "write"
    /\ LET L == loc[p]
           c == L.cur_cell_id
           g == CGroups[L.cg]
           colsB == L.colsB
           grp == tablets[c][g][L.group] IN
       \E rank \in Ranks(UNION {Idents(colsB[col]) : col \in DOMAIN colsB}) :
         LET ok    == \A col \in DOMAIN colsB :
                         /\ Len(colsB[col]) = Len(L.rows)
                         /\ BlobCheck(colsB[col], Len(grp.blobs[col]), rank)
             rows2 == [m \in DOMAIN L.rows |->
                         [col \in DOMAIN L.rows[m] |->
                             IF col \in DOMAIN colsB
                             THEN BlobRefs(colsB[col], Len(grp.blobs[col]), rank)[m]
                             ELSE L.rows[m][col]]]
             blobs2 == [col \in DOMAIN grp.blobs |->
                          IF col \in DOMAIN colsB
                          THEN grp.blobs[col] \o StoredVals(colsB[col], rank)
                          ELSE grp.blobs[col]]
             idx2  == IF DOMAIN colsB = {} THEN L.idx
                      ELSE UniqueIndex(colsB[CHOOSE col \in DOMAIN colsB : TRUE], rank)
             L2    == [L EXCEPT !.rows = <<>>, !.colsB = EmptyCols, !.idx = idx2,
                                !.slice = IF DOMAIN colsB = {} THEN @ ELSE FALSE]
         IN  IF ~ok
             THEN /\ pc' = [pc EXCEPT ![p] = "done"]
                  /\ result' = [result EXCEPT ![p] = "error"]
                  /\ UNCHANGED <<tablets, fp, loc>>
             ELSE /\ tablets' = [tablets EXCEPT ![c][g][L.group].table = @ \o rows2,
                                                ![c][g][L.group].blobs = blobs2]
                  /\ fp' = [fp EXCEPT ![p] = ""]
                  /\ UNCHANGED result
                  /\ IF L.cg < Len(CGroups)
                     THEN /\ loc' = [loc EXCEPT ![p] = [L2 EXCEPT !.cg = L.cg + 1]]
                          /\ pc' = [pc EXCEPT ![p] = "open"]
                     ELSE /\ loc' = [loc EXCEPT ![p] = L2]
                          /\ pc' = [pc EXCEPT ![p] = "unlock"]
    /\ UNCHANGED <<lockfile, lock, nrows_, ncalls, rd, svars, tvars>>

\* os.unlink(lock)
unlock_cell(lf, c) == [lf EXCEPT ![c] = NoProc]

\* The assertions of lines 1120-1121 pass.
EndOk(L, ntot) ==
    LET key == L.cols[primary_key] IN
    /\ L.update \/ ntot = Len(key)
    /\ Cardinality(Range(key)) = Len(key)

\* Lines 1114-1123: release the cell, account the rows, go on or return.
UnlockCell(p) ==
    /\ pc[p] = "unlock"
    /\ LET L == loc[p]
           ntot == L.ntot + L.nnew IN
       /\ lockfile' = unlock_cell(lockfile, lock[p])
       /\ lock' = [lock EXCEPT ![p] = NoCell]
       /\ nrows_' = [nrows_ EXCEPT ![p] = @ + L.nnew]
       /\ loc' = [loc EXCEPT ![p].ntot = ntot,
                             ![p].k = IF L.unique_cells # <<>> THEN 0 ELSE @]
       /\ IF L.unique_cells # <<>>
          THEN /\ pc' = [pc EXCEPT ![p] = "locking"]
               /\ UNCHANGED result
          ELSE /\ pc' = [pc EXCEPT ![p] = "done"]
               /\ result' = [result EXCEPT ![p] = IF EndOk(L, ntot) THEN "ok" ELSE "error"]
    /\ UNCHANGED <<tablets, fp, ncalls, rd, svars, tvars>>

\* The call has ended; its locals are gone, a lockfile it left stays.
Return(p) ==
    /\ pc[p] = "done"
    /\ pc' = [pc EXCEPT ![p] = "idle"]
    /\ result' = [result EXCEPT ![p] = "none"]
    /\ lock' = [lock EXCEPT ![p] = NoCell]
    /\ fp' = [fp EXCEPT ![p] = ""]
    /\ loc' = [loc EXCEPT ![p] = IdleLoc]
    /\ UNCHANGED <<tablets, lockfile, nrows_, ncalls, rd, svars, tvars>>

\* ------------------------------------------------------------ drop_row_group
\* lock_cell(cell_id, mode='w'): _lock_cell with retries=-1 waits for the lock.
DropBegin(p, c, group) ==
    /\ pc[p] = "idle"
    /\ ncalls < MaxCalls
    /\ ncalls' = ncalls + 1
    /\ lockfile_free(c)
    /\ lockfile' = [lockfile EXCEPT ![c] = p]
    /\ lock' = [lock EXCEPT ![p] = c]
    /\ loc' = [loc EXCEPT ![p] = [IdleLoc EXCEPT !.op = "drop", !.group = group,
                                     !.cur_cell_id = c, !.cg = 1]]
    /\ pc' = [pc EXCEPT ![p] = "dropopen"]
    /\ UNCHANGED <<tablets, result, fp, nrows_, rd, svars, tvars>>

\* cell.open(cgroup): _open_tablet(mode='w')
DropOpen(p) ==
    /\ pc[p] = "dropopen"
    /\ LET L == loc[p]
           c == L.cur_cell_id
           g == CGroups[L.cg] IN
       /\ tablets' = [tablets EXCEPT ![c][g] = open_tablet_w(@, g)]
       /\ fp' = [fp EXCEPT ![p] = g]
    /\ pc' = [pc EXCEPT ![p] = "dropnode"]
    /\ UNCHANGED <<lockfile, lock, result, nrows_, loc, ncalls, rd, svars, tvars>>

\* fp.removeNode('/', group, recursive=True) if the group is there; fp.close()
DropNode(p) ==
    /\ pc[p] = "dropnode"
    /\ LET L == loc[p]
           c == L.cur_cell_id
           g == CGroups[L.cg] IN
       /\ tablets' = [tablets EXCEPT ![c][g][L.group] = NoGroup]
       /\ fp' = [fp EXCEPT ![p] = ""]
       /\ IF L.cg < Len(CGroups)
          THEN /\ loc' = [loc EXCEPT ![p].cg = L.cg + 1]
               /\ pc' = [pc EXCEPT ![p] = "dropopen"]
          ELSE /\ UNCHANGED loc
               /\ pc' = [pc EXCEPT ![p] = "dropunlock"]
    /\ UNCHANGED <<lockfile, lock, result, nrows_, ncalls, rd, svars, tvars>>

DropUnlock(p) ==
    /\ pc[p] = "dropunlock"
    /\ lockfile' = unlock_cell(lockfile, lock[p])
    /\ lock' = [lock EXCEPT ![p] = NoCell]
    /\ pc' = [pc EXCEPT ![p] = "done"]
    /\ result' = [result EXCEPT ![p] = "ok"]
    /\ UNCHANGED <<tablets, fp, nrows_, loc, ncalls, rd, svars, tvars>>

\* ---------------------------------------------------------------- fetch_tablet
\* tablet_exists(cell_id, cgroup): the tablet file can be read.
tablet_exists(tbs, cell_id, g) == tbs[cell_id][g].exists

\* The cell is read as it is named.
static_never(tbs, cell_id) == cell_id

\* static_if_no_temporal(cell_id), lines 291-302: a temporal cell without a
\* tablet of the primary cgroup is replaced by its static-sky cell.
static_if_no_temporal(tbs, cell_id) ==
    IF ~is_temporal_cell(cell_id) THEN cell_id
    ELSE IF tablet_exists(tbs, cell_id, primary_cgroup) THEN cell_id
    ELSE static_cell_for_cell(cell_id)

\* The body of fetch_tablet for the cell it reads: the rows of the main table
\* (line 1344), no rows where the tablet file does not exist (lines
\* 1356-1357); reading fp.root.main of a tablet whose main group was dropped
\* raises.
read_tablet(tbs, c, g) ==
    IF ~tablet_exists(tbs, c, g) THEN [raised |-> FALSE, rows |-> <<>>]
    ELSE IF ~tbs[c][g].main.present THEN [raised |-> TRUE, rows |-> <<>>]
    ELSE [raised |-> FALSE, rows |-> tbs[c][g].main.table]

\* fetch_tablet(cell_id, cgroup): the read of the cell that
\* static_if_no_temporal gives (line 1335).
fetch_tablet(tbs, cell_id, g) ==
    read_tablet(tbs, static_if_no_temporal(tbs, cell_id), g)

\* fetch_tablet(cell_id, cgroup, include_cached=True): the rows of the cached
\* group, their blob references negated, follow the main rows (lines
\* 1341-1354).
NotNegated(row, g) == row

Negated(row, g) ==
    [col \in DOMAIN row |-> IF col \in Blobs(g) THEN -row[col] ELSE row[col]]

fetch_tablet_cached(tbs, cell_id, g) ==
    LET c  == static_if_no_temporal(tbs, cell_id)
        tb == tbs[c][g] IN
    IF ~fetch_tablet(tbs, c, g).raised /\ tb.exists /\ tb.cached.present
    THEN [raised |-> FALSE,
          rows |-> tb.main.table \o
                   [m \in DOMAIN tb.cached.table |-> Negated(tb.cached.table[m], g)]]
    ELSE fetch_tablet(tbs, c, g)

\* No row is marked as cached.
pseudo_cached_none(nrows, nrows1) == [j \in 1..nrows |-> FALSE]

\* Lines 1384-1385: np.zeros(nrows, bool) with cached[nrows1:] = True.
pseudo_cached(nrows, nrows1) == [j \in 1..nrows |-> j > nrows1]

\* _fetch_pseudotablet(cell_id, '_PSEUDOCOLS', include_cached), lines
\* 1375-1391: the row counts of the primary cgroup's tablet, then the columns
\* _CACHED, _ROWIDX and _ROWID; reading fp.root.main of a tablet whose main
\* group was dropped raises.
fetch_pseudotablet(tbs, cell_id, include_cached) ==
    LET tb     == tbs[cell_id][primary_cgroup]
        has    == tablet_exists(tbs, cell_id, primary_cgroup)
        nrows1 == IF has THEN Len(tb.main.table) ELSE 0
        nrows2 == IF has /\ include_cached /\ tb.cached.present
                  THEN Len(tb.cached.table) ELSE 0
        nrows  == nrows1 + nrows2
    IN  IF has /\ ~tb.main.present THEN [raised |-> TRUE, cols |-> << >>]
        ELSE [raised |-> FALSE,
              cols |-> [n \in {"_CACHED", "_ROWIDX", "_ROWID"} |->
                          IF n = "_CACHED" THEN pseudo_cached(nrows, nrows1)
                          ELSE IF n = "_ROWIDX" THEN [j \in 1..nrows |-> j - 1]
                          ELSE [j \in 1..nrows |-> id_for_cell_i(cell_id, j - 1)]]]

\* fetch_tablet(cell_id, '_PSEUDOCOLS', include_cached), lines 1335-1338.
fetch_tablet_pseudo(tbs, cell_id, include_cached) ==
    fetch_pseudotablet(tbs, static_if_no_temporal(tbs, cell_id), include_cached)

\* self.columns[column].cgroup
CgroupOf(column) == CHOOSE g \in Range(CGroups) : column \in Columns(g)

\* fetch_blobs(cell_id, column, refs, include_cached): no references, no
\* file opened (lines 1278-1279); opening a tablet that does not exist
\* raises.
fetch_blobs(tbs, cell_id, column, refs, include_cached) ==
    LET c == static_if_no_temporal(tbs, cell_id) IN
    IF refs = <<>> THEN [raised |-> FALSE, blobs |-> <<>>]
    ELSE IF ~tbs[c][CgroupOf(column)].exists THEN [raised |-> TRUE, blobs |-> <<>>]
    ELSE fetch_blobs_fp(tbs[c][CgroupOf(column)], column, refs, include_cached)

\* ------------------------------------------------------------------ inputs
Const(n, v) == [j \in 1..n |-> v]

Arg(group, update, cell_id, cols) ==
    [group |-> group, update |-> update, cell_id |-> cell_id, cols |-> cols]

\* Position columns of the batches: one or two rows, in one or two cells.
RaSeqs == {<<0>>, <<1>>, <<0, 1>>, <<0, 0>>}

\* Keys a caller supplies: bare cell-IDs, and full keys with a small and
\* with the largest obj_part.
InputKeys == {id_for_cell_i(c, o) : c \in Cells, o \in {0, 1, ObjMod - 1}}
KeySeqs == {<<k>> : k \in InputKeys} \cup {<<1, ObjMod - 1>>, <<1, 1>>}

\* append(cols) without keys: the position column, with or without x.
PlainInputs ==
    {Arg("main", FALSE, NoCell, c) :
        c \in {("ra" :> s) : s \in RaSeqs}
              \cup {("ra" :> s) @@ ("x" :> Const(Len(s), 1)) : s \in RaSeqs}}

\* append with a key column, as an update or not.
KeyedInputs ==
    {Arg("main", u, NoCell, c) :
        u \in BOOLEAN,
        c \in {("id" :> ks) : ks \in KeySeqs}
              \cup {("id" :> ks) @@ ("ra" :> Const(Len(ks), 1)) : ks \in KeySeqs}
              \cup {("id" :> ks) @@ ("x" :> Const(Len(ks), 2)) : ks \in KeySeqs}}

\* append(group='cached', cell_id=c) with or without keys, and the argument
\* combinations the first assertions reject.
CachedInputs ==
    {Arg(grp, FALSE, c, cols) :
        grp \in {"main", "cached"}, c \in Cells,
        cols \in {("id" :> <<k>>) @@ ("ra" :> <<1>>) : k \in InputKeys}
                 \cup {("ra" :> <<1>>)}}
    \cup {Arg("cached", TRUE, 0, ("id" :> <<1>>))}

Inputs == PlainInputs \cup KeyedInputs \cup CachedInputs

\* The batches of the two-writer specification.
SmallInputs ==
    {Arg("main", FALSE, NoCell, ("ra" :> <<0>>)),
     Arg("main", FALSE, NoCell, ("ra" :> <<0, 1>>) @@ ("x" :> <<1, 1>>)),
     Arg("main", TRUE, NoCell, ("id" :> <<ObjMod - 1>>) @@ ("x" :> <<2>>)),
     Arg("main", TRUE, NoCell, ("id" :> <<1>>) @@ ("ra" :> <<1>>)),
     Arg("main", FALSE, NoCell, ("id" :> <<ObjMod>>)),
     Arg("cached", FALSE, 0, ("id" :> <<ObjMod + 1>>)),
     Arg("cached", FALSE, 0, ("ra" :> <<1>>))}

\* Batches with blob columns, for cell 0: appends whose blob values repeat an
\* object, differ, or are None; updates of a stored key with and without
\* blob values, and of a key that is not stored; appends to the neighbor
\* cache; and one append to cell 1.
BlobInputs ==
    {Arg("main", FALSE, NoCell,
         ("ra" :> <<0, 0>>) @@ ("b" :> <<Obj(1), Obj(1)>>) @@ ("c" :> <<Obj(1), Obj(2)>>)),
     Arg("main", FALSE, NoCell,
         ("ra" :> <<0, 0>>) @@ ("b" :> <<None, Obj(1)>>) @@ ("c" :> <<Obj(2), Obj(1)>>)),
     Arg("main", FALSE, NoCell,
         ("ra" :> <<0>>) @@ ("b" :> <<Obj(1)>>) @@ ("x" :> <<1>>)),
     Arg("main", FALSE, NoCell, ("ra" :> <<0>>) @@ ("x" :> <<1>>)),
     Arg("main", FALSE, NoCell,
         ("ra" :> <<1>>) @@ ("b" :> <<Obj(2)>>) @@ ("c" :> <<Obj(1)>>)),
     Arg("main", TRUE, NoCell,
         ("id" :> <<2>>) @@ ("b" :> <<Obj(2)>>) @@ ("c" :> <<Obj(2)>>)),
     Arg("main", TRUE, NoCell,
         ("id" :> <<1>>) @@ ("c" :> <<None>>) @@ ("ra" :> <<1>>)),
     Arg("main", TRUE, NoCell, ("id" :> <<1>>) @@ ("ra" :> <<1>>) @@ ("x" :> <<2>>)),
     Arg("main", TRUE, NoCell,
         ("id" :> <<3>>) @@ ("b" :> <<Obj(1)>>) @@ ("c" :> <<Obj(1)>>)),
     Arg("cached", FALSE, 0,
         ("id" :> <<ObjMod + 1>>) @@ ("b" :> <<Obj(1)>>) @@ ("c" :> <<None>>)),
     Arg("cached", FALSE, 0,
         ("id" :> <<ObjMod + 2>>) @@ ("b" :> <<None>>) @@ ("c" :> <<Obj(2)>>))}

\* ------------------------------------------------------------ specification
Step(p) ==
    \/ TryLock(p)
    \/ OpenCgroup(p)
    \/ WriteCgroup(p)
    \/ UnlockCell(p)
    \/ Return(p)
    \/ DropOpen(p)
    \/ DropNode(p)
    \/ DropUnlock(p)

\* The calls and steps of the processes P, with appends drawn from I.
NextOf(P, I, hist) ==
    \E p \in P :
        \/ \E a \in I : AppendBegin(p, a, hist)
        \/ \E c \in Cells, group \in {"main", "cached"} : DropBegin(p, c, group)
        \/ Step(p)

\* Two concurrent writers, a small set of batches of every kind.
Next == NextOf(Procs, SmallInputs, FALSE)
Spec == Init /\ [][Next]_vars

\* Two concurrent writers that append batches without keys.
NextPlain ==
    \E p \in Procs :
        \/ \E a \in PlainInputs : AppendBegin(p, a, FALSE)
        \/ TryLock(p)
        \/ OpenCgroup(p)
        \/ WriteCgroup(p)
        \/ UnlockCell(p)
        \/ Return(p)
SpecPlain == Init /\ [][NextPlain]_vars

\* One writer, every batch; the calls record their history.
NextSeq == NextOf({1}, Inputs, TRUE)
SpecSeq == Init /\ [][NextSeq]_vars

\* One writer on a table with blob columns; the calls record their history.
NextBlob == NextOf({1}, BlobInputs, TRUE)
SpecBlob == Init /\ [][NextBlob]_vars

\* One writer that updates by key: batches whose keys are in stored order or
\* not, stored or not, with and without values for the other columns of the
\* primary cgroup, and an append without keys.
UpsertKeys == {<<1>>, <<2>>, <<3, 1>>, <<1, 2>>, <<2, 3>>, <<2, 3, 1>>}

UpsertInputs ==
    {Arg("main", TRUE, NoCell, c) :
        c \in {("id" :> ks) : ks \in UpsertKeys}
              \cup {("id" :> ks) @@ ("ra" :> [j \in DOMAIN ks |-> 4 + j]) :
                        ks \in UpsertKeys}}
    \cup {Arg("main", TRUE, NoCell, ("id" :> <<1, 2>>) @@ ("b" :> <<Obj(1), Obj(2)>>)),
          Arg("main", TRUE, NoCell, ("id" :> <<2, 3>>) @@ ("b" :> <<None, Obj(1)>>)),
          Arg("main", FALSE, NoCell, ("ra" :> <<0, 0>>))}

NextUpsert == NextOf({1}, UpsertInputs, TRUE)
SpecUpsert == Init /\ [][NextUpsert]_vars

\* ---------------------------------------------------------------- get_cells
\* TabletTreeCache().create_cache(pix, data_path, pattern, pklpath): the walk
\* of the primary cgroup's data directory finds the cells that have a primary
\* tablet now; the tree is also written to tablet_tree.pkl.
create_cache(tbs) ==
    [present |-> TRUE,
     cells |-> {c \in Cells : tablet_exists(tbs, c, primary_cgroup)}]

\* TabletTreeCache.get_cells(bounds=None, return_bounds=False,
\* include_cached=True): every cell of the tree.
tree_get_cells(tree) == tree.cells

\* Lines 330-336: the tree get_cells works on, built only where the instance
\* has none.
tree_of(tree, tbs) == IF ~tree.present THEN create_cache(tbs) ELSE tree

\* Table.get_cells(): lines 330-338. The call reads the directory and returns
\* within one step of the writers.
GetCells ==
    /\ ~cells_got.present
    /\ self_tablet_tree' = tree_of(self_tablet_tree, tablets)
    /\ tablet_tree_pkl' = IF self_tablet_tree.present THEN tablet_tree_pkl
                          ELSE create_cache(tablets)
    /\ pkl_newer' = (pkl_newer \/ ~self_tablet_tree.present)
    /\ cells_got' = [present |-> TRUE,
                     cells |-> tree_get_cells(tree_of(self_tablet_tree, tablets))]
    /\ UNCHANGED <<wvars, rd, svars>>

\* The caller has the list of cells.
GetCellsReturn ==
    /\ cells_got.present
    /\ cells_got' = NoTree
    /\ UNCHANGED <<wvars, rd, svars, self_tablet_tree, tablet_tree_pkl, pkl_newer>>

\* Batches for one cell and for both.
CellInputs ==
    {Arg("main", FALSE, NoCell, ("ra" :> s)) : s \in {<<0>>, <<1>>, <<0, 1>>}}

\* One writer that fills neighbor caches: an append of a main row with blobs;
\* appends to the cache of a cell with full keys of that cell and of the
\* other one, with and without blob values; and the calls that are to be
\* rejected: no key, a bare cell-ID as key, group 'main' with a cell_id, an
\* update of the cache.
CacheInputs ==
    {Arg("main", FALSE, NoCell,
         ("ra" :> <<0>>) @@ ("b" :> <<Obj(1)>>) @@ ("x" :> <<1>>) @@ ("c" :> <<Obj(2)>>))}
    \cup {Arg("cached", FALSE, c, cols) :
            c \in Cells,
            cols \in {("id" :> <<ObjMod + 1>>) @@ ("b" :> <<Obj(1)>>) @@ ("c" :> <<None>>),
                      ("id" :> <<1, ObjMod + 2>>) @@ ("ra" :> <<5, 6>>),
                      ("id" :> <<2>>) @@ ("x" :> <<7>>),
                      ("ra" :> <<1>>),
                      ("id" :> <<ObjMod>>) @@ ("ra" :> <<1>>),
                      ("id" :> <<1, 0>>) @@ ("ra" :> <<5, 6>>)}}
    \cup {Arg("main", FALSE, 0, ("id" :> <<1>>) @@ ("ra" :> <<1>>)),
          Arg("cached", TRUE, 0, ("id" :> <<1>>))}

NextCache == NextOf({1}, CacheInputs, TRUE)
SpecCache == Init /\ [][NextCache]_vars

\* Two concurrent writers whose batches go to different cells: process p
\* appends main-group batches whose rows all fall in cell p - 1; a batch with
\* keys holds the key column alone.
DisjointInputs(p) ==
    {a \in PlainInputs \cup KeyedInputs :
        /\ ("id" \in DOMAIN a.cols) => DOMAIN a.cols = {"id"}
        /\ BeginOk(a) => Range(CellsOf(a)) \subseteq {p - 1}}

NextDisjoint ==
    \E p \in Procs :
        \/ \E a \in DisjointInputs(p) : AppendBegin(p, a, FALSE)
        \/ TryLock(p)
        \/ OpenCgroup(p)
        \/ WriteCgroup(p)
        \/ UnlockCell(p)
        \/ Return(p)
SpecDisjoint == Init /\ [][NextDisjoint]_vars

\* A reader beside one writer. fetch_tablet(cell_id) of the primary cgroup:
\* lock_cell is entered with mode 'r' (line 1332), so no lockfile is looked
\* at, created or removed (line 1439); the tablet is opened and its main
\* table read as the file holds it at that moment (lines 1333-1334).
FetchTablet(c) ==
    /\ rd.pc = "idle"
    /\ rd' = [pc |-> "got", cell |-> c,
              raised |-> fetch_tablet(tablets, c, primary_cgroup).raised,
              rows |-> fetch_tablet(tablets, c, primary_cgroup).rows]
    /\ UNCHANGED <<wvars, svars, tvars>>

\* The reader's call returns.
FetchReturn ==
    /\ rd.pc = "got"
    /\ rd' = NoRead
    /\ UNCHANGED <<wvars, svars, tvars>>

\* The writer's calls of the specification with a reader: appends and updates
\* of the main group, recording their history.
NextWriter ==
    \/ \E a \in PlainInputs \cup KeyedInputs : AppendBegin(1, a, TRUE)
    \/ TryLock(1)
    \/ OpenCgroup(1)
    \/ WriteCgroup(1)
    \/ UnlockCell(1)
    \/ Return(1)

NextRead ==
    \/ NextWriter
    \/ \E c \in Cells : FetchTablet(c)
    \/ FetchReturn
SpecRead == Init /\ [][NextRead]_vars

\* The schema calls on a new table. The schemas the calls pass: a primary
\* cgroup with and without a temporal key, and further cgroups: plain, with a
\* temporal key, with spatial keys, with a primary key, with an object
\* column, with a blob column that is not int64, and with a column name the
\* primary cgroup has.
SchemaInputs ==
    {PriSchema,
     [columns |-> << <<primary_key, "u8">>, <<spatial_key, "f8">>, <<"t", "f8">> >>,
      primary_key |-> primary_key,
      spatial_keys |-> <<spatial_key, spatial_key>>,
      temporal_key |-> "t"],
     AuxSchema,
     [columns |-> << <<"t2", "f8">> >>, temporal_key |-> "t2"],
     [columns |-> << <<"y", "f8">> >>, spatial_keys |-> <<"y", "y">>],
     [columns |-> << <<"k", "u8">> >>, primary_key |-> "k"],
     [columns |-> << <<"x", "f8">>, <<"d", "O8">> >>],
     [columns |-> << <<"d", "f8">> >>, blobs |-> {"d"}],
     [columns |-> << <<"k", "u8">>, <<"d", "f8">> >>, primary_key |-> "k",
      blobs |-> {"d"}],
     [columns |-> << <<spatial_key, "f8">> >>]}

CGroupNames == {"a", "b", "_c"}

\* The aliases the calls define: a built-in name, the name of a column, a
\* new name; for a column that may or may not exist.
AliasInputs == {<<"_ID", "x">>, <<"ra", "x">>, <<"al", "ra">>}

\* A file group definition with an I/O filter (a tuple) and one with a path.
FgroupInputs ==
    {[filter |-> [seq |-> "tuple", name |-> "gzip"]], [path |-> "files"]}

FilterInputs == {("complib" :> "zlib")}

SchemaState ==
    [cgroups |-> self_cgroups, primary |-> self_primary_cgroup,
     columns |-> self_columns, cfg |-> schema_cfg,
     aliases |-> self_aliases, fgroups |-> self_fgroups,
     filters |-> self_filters, nrows |-> self_nrows, pix |-> self_pix,
     data |-> schema_data, res |-> sres]

SetSchema(st) ==
    /\ self_cgroups' = st.cgroups
    /\ self_primary_cgroup' = st.primary
    /\ self_columns' = st.columns
    /\ schema_cfg' = st.cfg
    /\ self_aliases' = st.aliases
    /\ self_fgroups' = st.fgroups
    /\ self_filters' = st.filters
    /\ self_nrows' = st.nrows
    /\ self_pix' = st.pix
    /\ schema_data' = st.data
    /\ sres' = st.res

\* The schema call that left st has run _store_schema and so rewritten
\* schema.cfg: each of the four calls stores as its last step (lines 219,
\* 228, 548, 807).
Stored(st) == st.res = "ok"

\* Table.create_cgroup(cgroup, schema, ignore_if_exists)
CreateCgroup(cgroup, schema, ignore_if_exists) ==
    /\ SetSchema(create_cgroup(SchemaState, cgroup, schema, ignore_if_exists))
    /\ pkl_newer' = (pkl_newer /\ ~Stored(create_cgroup(SchemaState, cgroup, schema, ignore_if_exists)))
    /\ UNCHANGED <<wvars, rd, self_tablet_tree, tablet_tree_pkl, cells_got>>

\* Table.define_alias(alias, colname)
DefineAlias(alias, colname) ==
    /\ SetSchema(define_alias(SchemaState, alias, colname))
    /\ pkl_newer' = (pkl_newer /\ ~Stored(define_alias(SchemaState, alias, colname)))
    /\ UNCHANGED <<wvars, rd, self_tablet_tree, tablet_tree_pkl, cells_got>>

\* Table.define_fgroup(fgroup, fgroupdef)
DefineFgroup(fgroup, fgroupdef) ==
    /\ SetSchema(define_fgroup(SchemaState, fgroup, fgroupdef))
    /\ pkl_newer' = (pkl_newer /\ ~Stored(define_fgroup(SchemaState, fgroup, fgroupdef)))
    /\ UNCHANGED <<wvars, rd, self_tablet_tree, tablet_tree_pkl, cells_got>>

\* Table.set_default_filters(**filters)
SetDefaultFilters(filters) ==
    /\ SetSchema(set_default_filters(SchemaState, filters))
    /\ pkl_newer' = (pkl_newer /\ ~Stored(set_default_filters(SchemaState, filters)))
    /\ UNCHANGED <<wvars, rd, self_tablet_tree, tablet_tree_pkl, cells_got>>

\* The table is opened anew: Table(path) runs _load_schema, which loads the
\* cell tree from tablet_tree.pkl if the file is there and newer than
\* schema.cfg (lines 399-401); the new instance has no tablet_tree otherwise.
LoadSchema ==
    /\ SetSchema(load_schema(SchemaState))
    /\ self_tablet_tree' = IF tablet_tree_pkl.present /\ pkl_newer
                           THEN tablet_tree_pkl ELSE NoTree
    /\ UNCHANGED <<wvars, rd, tablet_tree_pkl, pkl_newer, cells_got>>

InitSchema ==
    /\ tablets = [c \in Cells |-> [g \in Range(CGroups) |-> NoTablet]]
    /\ lockfile = [c \in Cells |-> NoProc]
    /\ pc = [p \in Procs |-> "idle"]
    /\ result = [p \in Procs |-> "none"]
    /\ lock = [p \in Procs |-> NoCell]
    /\ fp = [p \in Procs |-> ""]
    /\ nrows_ = [p \in Procs |-> 0]
    /\ rd = NoRead
    /\ loc = [p \in Procs |-> IdleLoc]
    /\ ncalls = 0
    /\ self_cgroups = NewTable.cgroups
    /\ self_primary_cgroup = NewTable.primary
    /\ self_columns = NewTable.columns
    /\ schema_cfg = NewTable.cfg
    /\ self_aliases = NewTable.aliases
    /\ self_fgroups = NewTable.fgroups
    /\ self_filters = NewTable.filters
    /\ self_nrows = NewTable.nrows
    /\ self_pix = NewTable.pix
    /\ schema_data = NewTable.data
    /\ sres = NewTable.res
    /\ self_tablet_tree = NoTree
    /\ tablet_tree_pkl = NoTree
    /\ pkl_newer = FALSE
    /\ cells_got = NoTree

NextSchema ==
    \/ \E cgroup \in CGroupNames, schema \in SchemaInputs, i \in BOOLEAN :
            CreateCgroup(cgroup, schema, i)
    \/ LoadSchema
SpecSchema == InitSchema /\ [][NextSchema]_vars

\* Every schema mutation on a new table, with fewer cgroup schemas: a
\* primary cgroup, one whose blob check fails after primary_cgroup is set,
\* and two further cgroups, the second with a column of the first.
MetaSchemaInputs ==
    {PriSchema,
     [columns |-> << <<"k", "u8">>, <<"d", "f8">> >>, primary_key |-> "k",
      blobs |-> {"d"}],
     AuxSchema,
     [columns |-> << <<"x", "f8">>, <<"d", "O8">> >>]}

NextMeta ==
    \/ \E cgroup \in {"a", "b"}, schema \in MetaSchemaInputs, i \in BOOLEAN :
            CreateCgroup(cgroup, schema, i)
    \/ \E a \in AliasInputs : DefineAlias(a[1], a[2])
    \/ \E d \in FgroupInputs : DefineFgroup("fg", d)
    \/ \E f \in FilterInputs : SetDefaultFilters(f)
    \/ LoadSchema
SpecMeta == InitSchema /\ [][NextMeta]_vars

\* One writer, get_cells between and during its calls, a schema mutation, and
\* the table opened anew.
NextCells ==
    \/ NextOf({1}, CellInputs, FALSE)
    \/ GetCells
    \/ GetCellsReturn
    \/ DefineAlias("al", spatial_key)
    \/ LoadSchema
SpecCells == Init /\ [][NextCells]_vars

\* ------------------------------------------------------------------ claims
MainTable(c) == tablets[c][primary_cgroup].main.table

\* Input row j of p's append is in the main table of its cell, under the key
\* the call holds for it.
RowStored(p, j) ==
    LET L == loc[p]
        t == MainTable(L.cells[j]) IN
    \E m \in DOMAIN t :
        /\ t[m][primary_key] = L.cols[primary_key][j]
        /\ t[m][spatial_key] = L.cols_[spatial_key][j]

KeysDistinct(c) ==
    \A m, n \in DOMAIN MainTable(c) :
        m # n => MainTable(c)[m][primary_key] # MainTable(c)[n][primary_key]

Writing == {"open", "write", "unlock", "dropopen", "dropnode", "dropunlock"}

\* C1: at most one writer holds the lock of a cell; a writer has a tablet of
\* cell c open for writing only while it holds c's lock, and it holds the lock
\* from before the first cgroup is opened until after the last is closed.
C1_MutualExclusion ==
    /\ \A p, q \in Procs : (p # q /\ lock[p] # NoCell) => lock[q] # lock[p]
    /\ \A p \in Procs : lock[p] # NoCell => lockfile[lock[p]] = p
    /\ \A p \in Procs :
          (fp[p] # "" \/ pc[p] \in Writing) =>
              lock[p] # NoCell /\ lock[p] = loc[p].cur_cell_id

\* A writer has a tablet of a cell open while the other has failed a lock
\* attempt and still has that cell to write.
C1_Witness ==
    \E p, q \in Procs :
        /\ p # q /\ fp[p] # "" /\ pc[q] = "locking" /\ loc[q].k > 0
        /\ lock[p] \in Range(loc[q].unique_cells)

\* C2 as stated, for batches that supply the columns of every cgroup: both
\* appends of keyless batches complete successfully under every interleaving,
\* every row of a batch is in its cell's main table, and the keys of each
\* cell are pairwise distinct.
C2_Original ==
    /\ \A p \in Procs :
          (pc[p] = "done" /\ "x" \in DOMAIN loc[p].cols_) =>
              /\ result[p] = "ok"
              /\ \A j \in DOMAIN loc[p].cells : RowStored(p, j)
    /\ \A c \in Cells : KeysDistinct(c)

\* C2 amended: a call may give up, but only with 'stuck on lock file' after
\* LockTries consecutive failed attempts; a call that did not give up has
\* locked and written every destination cell; every row of a cell the call
\* has written is in that cell's main table under the key the call holds for
\* it; the keys of each cell's main table are pairwise distinct.
C2_NoRowLost ==
    /\ \A p \in Procs :
          pc[p] = "done" =>
              /\ result[p] = "stuck" => loc[p].k = LockTries /\ loc[p].unique_cells # <<>>
              /\ result[p] # "stuck" => loc[p].unique_cells = <<>>
              /\ \A j \in DOMAIN loc[p].cells :
                    loc[p].cells[j] \notin Range(loc[p].unique_cells) => RowStored(p, j)
    /\ \A c \in Cells : KeysDistinct(c)

\* Both appends have ended successfully, they share a cell, one of them had
\* to retry its lock, and the shared cell holds the rows of both.
C2_Witness ==
    \E p, q \in Procs :
        /\ p # q /\ pc[p] = "done" /\ pc[q] = "done"
        /\ result[p] = "ok" /\ result[q] = "ok" /\ loc[q].k > 0
        /\ \E c \in Range(loc[p].cells) \cap Range(loc[q].cells) :
              Len(MainTable(c)) >= 2

\* C3: when a call has ended, normally or with an error, no lockfile it
\* created remains.
C3_LocksReleased ==
    \A p \in Procs :
        pc[p] = "done" => lock[p] = NoCell /\ \A c \in Cells : lockfile[c] # p

\* C4: append raises 'stuck on lock file' exactly when LockTries consecutive
\* attempts have failed; the raising call then holds no lock and the step
\* changes no tablet and no lockfile (what was written stays); and a tablet of
\* a cell changes only under that cell's lock, held by a call that no longer
\* has the cell among its remaining cells.
C4_StuckOnLock ==
    [][ /\ \A p \in Procs :
              (pc[p] = "locking" /\ pc'[p] = "done") =>
                  /\ result'[p] = "stuck" /\ loc'[p].k = LockTries
                  /\ lock'[p] = NoCell
                  /\ tablets' = tablets /\ lockfile' = lockfile
        /\ \A p \in Procs :
              (pc[p] = "locking" /\ loc'[p].k = LockTries) => pc'[p] = "done"
        /\ \A c \in Cells :
              tablets'[c] # tablets[c] =>
                  \E p \in Procs : /\ lock[p] = c /\ lockfile[c] = p
                                    /\ c \notin Range(loc[p].unique_cells)
      ]_vars

\* An append of a two-cell batch is stuck on its second cell; the row it
\* wrote to the first cell is in that cell's main table.
C4_Witness ==
    \E p \in Procs :
        /\ pc[p] = "done" /\ result[p] = "stuck"
        /\ Len(loc[p].cells) = 2 /\ Len(loc[p].unique_cells) = 1
        /\ \E j \in DOMAIN loc[p].cells :
              /\ loc[p].cells[j] \notin Range(loc[p].unique_cells)
              /\ RowStored(p, j)

\* C5: in every cell whose primary tablet has a main group, the sequence
\* value exceeds the obj_part of every key in the main table.
C5_SeqAboveKeys ==
    \A c \in Cells :
        tablets[c][primary_cgroup].main.present =>
            \A m \in DOMAIN MainTable(c) :
                tablets[c][primary_cgroup].main.seq > obj_part(MainTable(c)[m][primary_key])

\* A main table holds a row written with the largest obj_part a caller can
\* supply, next to a row with a generated key.
C5_Witness ==
    \E c \in Cells :
        \E m, n \in DOMAIN MainTable(c) :
            /\ obj_part(MainTable(c)[m][primary_key]) = ObjMod - 1
            /\ m # n
            /\ tablets[c][primary_cgroup].main.seq > ObjMod

\* The multiset of the elements of a sequence.
BagOfSeq(s) == [r \in Range(s) |-> Cardinality({m \in DOMAIN s : s[m] = r})]

\* A successful append into the main group has just ended.
Appended(p) ==
    /\ pc[p] = "done" /\ result[p] = "ok"
    /\ loc[p].op = "append" /\ loc[p].group = "main"

\* C6: after an append without a key column, every returned key has an
\* obj_part above zero, and the cell that cell_for_id gives for it stores the
\* input row of its position under that key.
C6_ReturnedKeys ==
    \A p \in Procs :
        (Appended(p) /\ primary_key \notin DOMAIN loc[p].cols_) =>
            \A j \in DOMAIN loc[p].cells :
                LET k == loc[p].cols[primary_key][j] IN
                /\ obj_part(k) > 0
                /\ cell_for_id(k) = loc[p].cells[j]
                /\ RowStored(p, j)

\* C7, for the main group: the cell part of every key stored in the main
\* table of a cell's primary tablet is that cell.
C7_KeyCellPart ==
    \A c \in Cells :
        \A m \in DOMAIN MainTable(c) :
            cell_for_id(MainTable(c)[m][primary_key]) = c

\* The row of cgroup g that input row j of the call L stands for: the
\* supplied columns, the key the call holds, zero elsewhere.
InputRow(L, g, j) ==
    [col \in Columns(g) |-> IF col \in DOMAIN L.cols THEN L.cols[col][j] ELSE 0]

\* What fetch_tablet(c, g) is to return after the call L, by the read-back
\* law, from what it returned before: an update's values stand in place of
\* the row with the same key, every other input row is one more row.
ReadBack(L, c, g) ==
    LET old  == read_tablet(L.before, c, g).rows
        kold == read_tablet(L.before, c, primary_cgroup).rows
        key  == L.cols[primary_key]
        hit(m) == {j \in DOMAIN key : L.cells[j] = c /\ key[j] = kold[m][primary_key]}
        upd  == [m \in DOMAIN old |->
                    IF ~L.update \/ hit(m) = {} THEN old[m]
                    ELSE LET j == CHOOSE x \in hit(m) : TRUE IN
                         [col \in Columns(g) |->
                             IF col \in DOMAIN L.cols THEN L.cols[col][j]
                             ELSE old[m][col]]]
        new  == Where([j \in DOMAIN key |->
                          /\ L.cells[j] = c
                          /\ L.update =>
                                \A m \in DOMAIN kold : kold[m][primary_key] # key[j]],
                      Len(key))
    IN  upd \o [r \in DOMAIN new |-> InputRow(L, g, new[r])]

\* When the call began, the cgroups of cell c held the same number of rows
\* and no two rows of the cell had the same key.
AlignedBefore(L, c) ==
    LET kold == read_tablet(L.before, c, primary_cgroup).rows IN
    /\ \A g \in Range(CGroups) :
          /\ ~read_tablet(L.before, c, g).raised
          /\ Len(read_tablet(L.before, c, g).rows) = Len(kold)
    /\ \A m, n \in DOMAIN kold :
          m # n => kold[m][primary_key] # kold[n][primary_key]

\* C8: after a successful append or update, the read of every cell's own
\* tablet of every cgroup returns the multiset of rows the read-back law gives: the rows
\* returned before the call, with the values of the update in place of those
\* of the rows it targeted, and the appended rows.
C8_ReadBack ==
    \A p \in Procs :
        Appended(p) =>
            \A c \in Cells :
                AlignedBefore(loc[p], c) =>
                    \A g \in Range(CGroups) :
                        /\ ~read_tablet(tablets, c, g).raised
                        /\ BagOfSeq(read_tablet(tablets, c, g).rows)
                              = BagOfSeq(ReadBack(loc[p], c, g))

\* The number of rows the call of p has added to the primary table of cell c.
RowsAdded(p, c) ==
    Len(MainTable(c)) - Len(loc[p].before[c][primary_cgroup].main.table)

RECURSIVE SumOver(_, _)
SumOver(S, f) ==
    IF S = {} THEN 0
    ELSE LET c == CHOOSE x \in S : TRUE IN f[c] + SumOver(S \ {c}, f)

\* C9: a successful append increases nrows by the number of rows it added;
\* an update adds to a cell as many rows as it has keys that matched no row
\* of the cell (none when every key matched).
C9_RowAccounting ==
    \A p \in Procs :
        Appended(p) =>
            /\ nrows_[p] - loc[p].nrows0
                  = SumOver(Cells, [c \in Cells |-> RowsAdded(p, c)])
            /\ loc[p].update =>
                  \A c \in Cells :
                      RowsAdded(p, c) =
                          Cardinality({j \in DOMAIN loc[p].cells :
                              /\ loc[p].cells[j] = c
                              /\ \A m \in DOMAIN loc[p].before[c][primary_cgroup].main.table :
                                    loc[p].before[c][primary_cgroup].main.table[m][primary_key]
                                        # loc[p].cols[primary_key][j]})

\* C10: when no writer holds the lock of a cell, the main tables of its
\* cgroups have the same number of rows.
C10_EqualRowCounts ==
    \A c \in Cells :
        (lockfile[c] = NoProc /\ \A p \in Procs : lock[p] # c) =>
            \A g \in Range(CGroups) :
                Len(tablets[c][g].main.table) = Len(MainTable(c))

\* The key contract of line 879 for the batch the call L was given: no key
\* column, or every key a bare cell-ID, or an update, or an explicit cell_id.
KeysAccepted(L) ==
    primary_key \in DOMAIN L.cols_ =>
        \/ \A j \in DOMAIN L.cols_[primary_key] : is_cell_id(L.cols_[primary_key][j])
        \/ L.update
        \/ L.cell_id # NoCell

\* C11: an append whose batch breaks the key contract ends with an error in
\* the step that begins it, and that step changes no lockfile, lock, tablet
\* or nrows; a call that goes on to lock a cell has a batch that keeps the
\* contract.
C11_KeyContract ==
    [][ \A p \in Procs :
          (pc[p] = "idle" /\ pc'[p] # "idle" /\ loc'[p].op = "append") =>
              IF KeysAccepted(loc'[p])
              THEN TRUE
              ELSE /\ pc'[p] = "done" /\ result'[p] = "error"
                   /\ tablets' = tablets /\ lockfile' = lockfile
                   /\ lock' = lock /\ nrows_' = nrows_
      ]_vars

\* An append of a batch with a full key, neither an update nor with a
\* cell_id, has ended with an error, holding no lock, on a table that already
\* has rows.
C11_Witness ==
    \E p \in Procs :
        /\ pc[p] = "done" /\ result[p] = "error" /\ loc[p].op = "append"
        /\ ~KeysAccepted(loc[p])
        /\ lock[p] = NoCell /\ \A c \in Cells : lockfile[c] = NoProc
        /\ \E c \in Cells : Len(MainTable(c)) > 0

WriterOf(c) == {p \in Procs : lock[p] = c /\ loc[p].op = "append"}

TableBefore(c) ==
    IF WriterOf(c) = {} THEN read_tablet(tablets, c, primary_cgroup).rows
    ELSE LET p == CHOOSE q \in WriterOf(c) : TRUE IN
         read_tablet(loc[p].before, c, primary_cgroup).rows

TableAfter(c) ==
    LET ps == {p \in WriterOf(c) : pc[p] = "write" /\ fp[p] = primary_cgroup} IN
    IF ps = {} THEN read_tablet(tablets, c, primary_cgroup).rows
    ELSE LET p == CHOOSE q \in ps : TRUE IN
         read_tablet(tablets, c, primary_cgroup).rows \o loc[p].rows

\* C18: a fetch_tablet changes no lockfile, and the rows it returns are the
\* main table of the cell it reads as it was before the write of that cell
\* began or as it is after that write, never a state between the two.
C18_ReaderSnapshot ==
    [][ (rd.pc = "idle" /\ rd'.pc = "got") =>
            /\ lockfile' = lockfile
            /\ LET c == static_if_no_temporal(tablets, rd'.cell)
               IN  rd'.rows \in {TableBefore(c), TableAfter(c)}
      ]_vars

\* The cgroups of the sequence cgs, other than the primary one, that declare
\* a key, and the cgroups that declare a primary key.
KeyFields == {"primary_key", "spatial_keys", "temporal_key"}

KeyedOutsidePrimary(cgs, primary) ==
    {k \in DOMAIN cgs : /\ cgs[k].name # primary
                        /\ DOMAIN cgs[k].schema \cap KeyFields # {}}

DeclaringPrimaryKey(cgs) ==
    {k \in DOMAIN cgs : "primary_key" \in DOMAIN cgs[k].schema}

\* The primary cgroup of the persisted schema is its first one (line 444).
CfgPrimary == IF schema_cfg = <<>> THEN "" ELSE schema_cfg[1].name

\* C20: after any sequence of create_cgroup calls, no cgroup other than the
\* primary one declares primary_key, spatial_keys or temporal_key, in the
\* in-memory schema and in schema.cfg, and at most one cgroup declares a
\* primary key.
C20_KeysOnlyInPrimary ==
    /\ KeyedOutsidePrimary(self_cgroups, self_primary_cgroup) = {}
    /\ KeyedOutsidePrimary(schema_cfg, CfgPrimary) = {}
    /\ Cardinality(DeclaringPrimaryKey(self_cgroups)) <= 1
    /\ Cardinality(DeclaringPrimaryKey(schema_cfg)) <= 1

\* The step of process p that stores the rows and blobs of one cgroup, the
\* row group it writes, as it is in the tablets tbs, and, for the blob
\* column col of the batch, the references the step writes into its rows and
\* the values it appends to the VLArray.
WriteStep(p) == pc[p] = "write" /\ pc'[p] \in {"open", "unlock"}

Grp(tbs, p) == tbs[loc[p].cur_cell_id][CGroups[loc[p].cg]][loc[p].group]

NewRefs(p, col) ==
    [m \in DOMAIN loc[p].rows |->
        Grp(tablets', p).table[Len(Grp(tablets, p).table) + m][col]]

BlobsAppended(p, col) ==
    SubSeq(Grp(tablets', p).blobs[col],
           Len(Grp(tablets, p).blobs[col]) + 1, Len(Grp(tablets', p).blobs[col]))

\* C13: a row whose blob value is None is stored with the reference 0, and
\* no None is appended to the VLArray, whatever the identities of the other
\* objects of the batch are.
C13_NoneIsRefZero ==
    [][ \A p \in Procs :
          WriteStep(p) =>
              \A col \in DOMAIN loc[p].colsB :
                  /\ \A m \in DOMAIN loc[p].colsB[col] :
                        loc[p].colsB[col][m] = None => NewRefs(p, col)[m] = 0
                  /\ \A k \in DOMAIN BlobsAppended(p, col) :
                        BlobsAppended(p, col)[k] # None.val
      ]_vars

\* The objects of a blob column other than None, by identity.
NonNone(colB) == Idents(colB) \ {None.ident}

\* C12: in an append that is not an update, rows of a cell with the same
\* object in a blob column get equal references, rows with distinct objects
\* other than None get distinct references, and as many values are appended
\* to the VLArray as the column has distinct objects other than None.
C12_IdentityDedup ==
    [][ \A p \in Procs :
          (WriteStep(p) /\ ~loc[p].update) =>
              \A col \in DOMAIN loc[p].colsB :
                  LET colB == loc[p].colsB[col] IN
                  /\ \A m, n \in DOMAIN colB :
                        /\ colB[m].ident = colB[n].ident
                              => NewRefs(p, col)[m] = NewRefs(p, col)[n]
                        /\ (colB[m].ident # colB[n].ident
                               /\ colB[m] # None /\ colB[n] # None)
                              => NewRefs(p, col)[m] # NewRefs(p, col)[n]
                  /\ Len(BlobsAppended(p, col)) = Cardinality(NonNone(colB))
      ]_vars

\* C14: every blob VLArray of every row group that exists, main or cached,
\* has an element at index 0, and that element is the sentinel None: after
\* the row group was created, after appends, and after an update has
\* truncated and refilled the VLArray.
C14_Sentinel ==
    \A c \in Cells, g \in Range(CGroups), group \in {"main", "cached"} :
        tablets[c][g][group].present =>
            \A col \in Blobs(g) :
                /\ Len(tablets[c][g][group].blobs[col]) >= 1
                /\ tablets[c][g][group].blobs[col][1] = None.val

\* An update that found rows in the cell has ended: it truncated the VLArray
\* of column b and filled it again with the blobs of the old and new rows.
C14_Witness ==
    /\ pc[1] = "done" /\ result[1] = "ok" /\ loc[1].update
    /\ loc[1].nrows >= 1 /\ "b" \in DOMAIN loc[1].cols_
    /\ Len(tablets[0][primary_cgroup].main.blobs["b"]) >= 3

\* The distinct objects of a blob column other than None, in the order of
\* their first occurrence.
RECURSIVE FirstOccurrences(_)
FirstOccurrences(colB) ==
    IF colB = <<>> THEN <<>>
    ELSE LET init == FirstOccurrences(SubSeq(colB, 1, Len(colB) - 1))
             last == colB[Len(colB)]
         IN  IF last = None \/ \E k \in DOMAIN init : init[k].ident = last.ident
             THEN init ELSE Append(init, last)

Resolve(tbs, c, col, m) ==
    LET rows == read_tablet(tbs, c, CgroupOf(col)).rows IN
    IF m \notin DOMAIN rows THEN -1
    ELSE LET r == fetch_blobs(tbs, c, col, <<rows[m][col]>>, FALSE) IN
         IF r.raised THEN -1 ELSE r.blobs[1].val

\* The position of the row with the key k in the primary table of cell c, 0
\* if there is none.
PosOf(tbs, c, k) ==
    LET t == read_tablet(tbs, c, primary_cgroup).rows IN
    IF \E m \in DOMAIN t : t[m][primary_key] = k
    THEN CHOOSE m \in DOMAIN t : t[m][primary_key] = k
    ELSE 0

\* The value the call L wrote last for column col of the row with key k in
\* cell c: the batch's value for the key if the batch has the column, else
\* the value the row had before the call, None for a new row.
LastWritten(L, c, col, k) ==
    LET js == {j \in DOMAIN L.cells : L.cells[j] = c /\ L.cols[primary_key][j] = k} IN
    IF js # {} /\ col \in DOMAIN L.cols_
    THEN L.cols_[col][CHOOSE j \in js : \A i \in js : i <= j].val
    ELSE IF PosOf(L.before, c, k) # 0
    THEN Resolve(L.before, c, col, PosOf(L.before, c, k))
    ELSE None.val

\* The batch of the call L has a column of every cgroup.
EveryCgroup(L) ==
    \A g \in Range(CGroups) : Columns(g) \cap DOMAIN L.cols # {}

\* C16: after a successful append or update of main rows, on a cell whose
\* cgroups had equally many rows and distinct keys, by a batch with a column
\* of every cgroup: for every row of the cell and every blob column,
\* fetch_blobs on the row's reference gives the value last written for the
\* row; rows the update did not target keep their values.
C16_BlobRoundTrip ==
    \A p \in Procs :
        (Appended(p) /\ loc[p].group = "main" /\ EveryCgroup(loc[p])) =>
            \A c \in Range(loc[p].cells) :
                AlignedBefore(loc[p], c) =>
                    \A m \in DOMAIN MainTable(c) :
                        \A g \in Range(CGroups) : \A col \in Blobs(g) :
                            Resolve(tablets, c, col, m)
                                = LastWritten(loc[p], c, col, MainTable(c)[m][primary_key])

\* A successful append into the neighbor cache has just ended.
CachedAppended(p) ==
    /\ pc[p] = "done" /\ result[p] = "ok"
    /\ loc[p].op = "append" /\ loc[p].group = "cached"

\* C17: where a tablet has a main and a cached group, fetch_tablet with
\* include_cached returns the main rows followed by the cached rows, the blob
\* references of the cached rows negated and their other columns as stored;
\* fetch_blobs with include_cached takes a reference r >= 0 from the main
\* VLArray at r and a reference r < 0 from the cached VLArray at -r; and
\* after an append to the cache, each of its rows resolves to the blob value
\* the append was given for it.
C17_CachedRefs ==
    /\ \A c \in Cells, g \in Range(CGroups) :
          LET tb == tablets[c][g]
              r  == fetch_tablet_cached(tablets, c, g)
              n  == Len(tb.main.table)
          IN  (tb.exists /\ tb.main.present /\ tb.cached.present) =>
                  /\ ~r.raised
                  /\ Len(r.rows) = n + Len(tb.cached.table)
                  /\ SubSeq(r.rows, 1, n) = tb.main.table
                  /\ \A m \in DOMAIN tb.cached.table : \A col \in Columns(g) :
                        r.rows[n + m][col] = IF col \in Blobs(g)
                                             THEN -tb.cached.table[m][col]
                                             ELSE tb.cached.table[m][col]
                  /\ \A m \in DOMAIN r.rows : \A col \in Blobs(g) :
                        LET ref == r.rows[m][col]
                            f   == fetch_blobs(tablets, c, col, <<ref>>, TRUE)
                        IN  /\ ~f.raised
                            /\ f.blobs[1].val = IF ref >= 0
                                                THEN tb.main.blobs[col][ref + 1]
                                                ELSE tb.cached.blobs[col][-ref + 1]
    /\ \A p \in Procs :
          CachedAppended(p) =>
              \A g \in Range(CGroups) :
                  LET L  == loc[p]
                      c  == L.cell_id
                      tb == tablets[c][g]
                      r  == fetch_tablet_cached(tablets, c, g)
                      n0 == Len(tb.main.table) + Len(L.before[c][g].cached.table)
                  IN  (tb.main.present /\ Columns(g) \cap DOMAIN L.cols # {}) =>
                          \A j \in DOMAIN L.cells : \A col \in Blobs(g) :
                              /\ n0 + j \in DOMAIN r.rows
                              /\ fetch_blobs(tablets, c, col,
                                             <<r.rows[n0 + j][col]>>, TRUE).blobs[1].val
                                    = IF col \in DOMAIN L.cols_
                                      THEN L.cols_[col][j].val ELSE None.val

\* An append to the cache of a cell that has main rows with a blob has
\* ended: the cached row has a blob of its own, which fetch_tablet with
\* include_cached returns under a negative reference.
C17_Witness ==
    /\ CachedAppended(1)
    /\ \E m \in DOMAIN tablets[0][primary_cgroup].main.table :
          tablets[0][primary_cgroup].main.table[m]["b"] > 0
    /\ \E m \in DOMAIN fetch_tablet_cached(tablets, 0, primary_cgroup).rows :
          fetch_tablet_cached(tablets, 0, primary_cgroup).rows[m]["b"] < 0

\* The call create_cgroup(cgroup, schema, ignore_if_exists) is one the
\* schema rules reject in the state st: the cgroup exists and is not to be
\* ignored, its name is a pseudo-cgroup's, it declares spatial keys without
\* a primary key, it declares a primary key while a primary cgroup exists, or
\* it declares a blob column that is not a 64-bit integer.
SchemaViolation(st, cgroup, schema, ignore_if_exists) ==
    \/ HasCgroup(st.cgroups, cgroup) /\ ~ignore_if_exists
    \/ is_pseudotablet(cgroup)
    \/ "spatial_keys" \in DOMAIN schema /\ "primary_key" \notin DOMAIN schema
    \/ "primary_key" \in DOMAIN schema /\ st.primary # ""
    \/ ~BlobsInt64(ConvertBlobs(schema))

\* The step is the call create_cgroup(cgroup, schema, ignore_if_exists).
IsCreateCgroup(cgroup, schema, ignore_if_exists) ==
    SchemaState' = create_cgroup(SchemaState, cgroup, schema, ignore_if_exists)

\* C21: a create_cgroup call that redeclares a cgroup without
\* ignore_if_exists, names a pseudo-cgroup, declares spatial keys outside
\* the primary cgroup, declares a second primary cgroup or declares a blob
\* column that is not int64 raises, and leaves the in-memory cgroups, the
\* column index, primary_cgroup and schema.cfg as they were before the call.
C21_RejectedUnchanged ==
    [][\A cgroup \in CGroupNames, schema \in SchemaInputs, i \in BOOLEAN :
          (/\ SchemaViolation(SchemaState, cgroup, schema, i)
           /\ IsCreateCgroup(cgroup, schema, i))
          => /\ sres' = "error"
             /\ UNCHANGED <<self_cgroups, self_columns, self_primary_cgroup,
                            schema_cfg>>]_vars

\* The in-memory state a load leaves, without the file and the outcome.
InMemory(st) ==
    [cgroups |-> st.cgroups, columns |-> st.columns, primary |-> st.primary,
     aliases |-> st.aliases, fgroups |-> st.fgroups, filters |-> st.filters,
     nrows |-> st.nrows, pix |-> st.pix]

\* The first load of schema.cfg as it is, and the load that follows a store
\* of what the first load left.
FirstLoad == load_schema(SchemaState)
SecondLoad == load_schema(store_schema_file(FirstLoad))

PseudoLast(cgs) ==
    /\ cgs # <<>>
    /\ cgs[Len(cgs)].name = PSEUDOCOLS.name
    /\ \A k \in 1..(Len(cgs) - 1) : ~is_pseudotablet(cgs[k].name)

\* C22: whatever schema.cfg the schema calls have left, if loading it
\* succeeds, then storing the loaded state and loading again gives the same
\* in-memory state: the cgroups in the same order with _PSEUDOCOLS last, the
\* column index, the primary cgroup, aliases, fgroups, filters, nrows and
\* the pixelization parameters; and the store leaves the file as it was.
C22_ReloadIdempotent ==
    FirstLoad.res = "ok" =>
        /\ SecondLoad.res = "ok"
        /\ InMemory(SecondLoad) = InMemory(FirstLoad)
        /\ PseudoLast(FirstLoad.cgroups)
        /\ PseudoLast(SecondLoad.cgroups)
        /\ store_schema_file(FirstLoad).cfg = schema_cfg
        /\ store_schema_file(FirstLoad).data = schema_data

\* schema.cfg holds two cgroups, an alias, a file group with a filter and
\* default filters, and the state in memory is not the one a load gives:
\* the pseudo-cgroup comes first and the filter is still a tuple.
C22_Witness ==
    /\ FirstLoad.res = "ok"
    /\ Len(schema_cfg) = 2
    /\ DOMAIN schema_data.aliases # {}
    /\ DOMAIN schema_data.filters # {}
    /\ "fg" \in DOMAIN self_fgroups /\ "filter" \in DOMAIN self_fgroups["fg"]
    /\ self_fgroups["fg"].filter.seq = "tuple"
    /\ InMemory(SchemaState) # InMemory(FirstLoad)
    /\ self_cgroups[1].name = PSEUDOCOLS.name

\* The names resolve_alias is asked for: the columns of the table, the
\* built-in aliases, the user aliases and a name that is none of these.
BuiltinKey ==
    [n \in {"_ID", "_LON", "_LAT", "_TIME", "_EXP"} |->
        CASE n = "_ID" -> "primary_key"
          [] n \in {"_LON", "_LAT"} -> "spatial_keys"
          [] n = "_TIME" -> "temporal_key"
          [] n = "_EXP" -> "exposure_key"]

ResolvedNames ==
    {self_columns[k].name : k \in DOMAIN self_columns}
        \cup DOMAIN BuiltinKey \cup DOMAIN self_aliases \cup {"zz"}

\* The column the built-in alias n stands for in the primary schema.
KeyColumn(schema, n) ==
    CASE n = "_LON" -> schema.spatial_keys[1]
      [] n = "_LAT" -> schema.spatial_keys[2]
      [] OTHER -> schema[BuiltinKey[n]]

\* C23: after any sequence of schema calls, where the primary cgroup's
\* schema can be read, resolve_alias returns a column name unchanged, gives
\* for a built-in alias the key column if the primary cgroup declares that
\* key, and otherwise the user alias of the name or, without one, the name.
C23_AliasResolution ==
    LET schema == get_schema(self_cgroups, self_primary_cgroup)
    IN  ~schema.raised =>
          \A n \in ResolvedNames :
            LET r == resolve_alias(SchemaState, n)
            IN  /\ ~r.raised
                /\ HasColumn(self_columns, n) => r.name = n
                /\ (n \in DOMAIN BuiltinKey /\ ~HasColumn(self_columns, n)) =>
                      r.name = IF BuiltinKey[n] \in DOMAIN schema.schema
                               THEN KeyColumn(schema.schema, n)
                               ELSE IF n \in DOMAIN self_aliases
                               THEN self_aliases[n] ELSE n

\* What the tablet of cgroup g in cell c itself holds: no rows without a
\* tablet file, the rows of its main table otherwise.
OwnTablet(c, g) ==
    IF ~tablets[c][g].exists THEN [raised |-> FALSE, rows |-> <<>>]
    ELSE IF ~tablets[c][g].main.present THEN [raised |-> TRUE, rows |-> <<>>]
    ELSE [raised |-> FALSE, rows |-> tablets[c][g].main.table]

\* The cell a read of cell c is to use: the static cell of a temporal cell
\* that has no tablet of the primary cgroup, c itself otherwise.
CellRead(c) ==
    IF is_temporal_cell(c) /\ ~tablets[c][primary_cgroup].exists
    THEN static_cell_for_cell(c) ELSE c

\* C24: fetch_tablet of a cell returns the rows of the static cell if the
\* cell is temporal and has no tablet of the primary cgroup, and the cell's
\* own rows otherwise; fetch_blobs resolves a reference of those rows from
\* the blob array of the same cell; with include_cached the same cell is
\* read; and the substitution applied to its own result changes nothing.
C24_StaticIfNoTemporal ==
    \A c \in Cells, g \in Range(CGroups) :
        LET rc == CellRead(c)
            r  == fetch_tablet(tablets, c, g)
        IN  /\ r = OwnTablet(rc, g)
            /\ fetch_tablet_cached(tablets, c, g) = fetch_tablet_cached(tablets, rc, g)
            /\ static_if_no_temporal(tablets, c) = rc
            /\ static_if_no_temporal(tablets, rc) = rc
            /\ \A m \in DOMAIN r.rows : \A col \in Blobs(g) :
                  LET f == fetch_blobs(tablets, c, col, <<r.rows[m][col]>>, FALSE)
                  IN  /\ ~f.raised
                      /\ f.blobs[1].val
                            = tablets[rc][g].main.blobs[col][r.rows[m][col] + 1]

\* The temporal cell has no tablet and the static cell has a row with a
\* blob: the read of the temporal cell gives that row and its blob.
C24_Witness ==
    /\ \E c \in Cells : is_temporal_cell(c) /\ CellRead(c) # c
    /\ \E m \in DOMAIN fetch_tablet(tablets, 1, primary_cgroup).rows :
          fetch_tablet(tablets, 1, primary_cgroup).rows[m]["b"] > 0

\* fetch_tablet of the primary cgroup, with or without the cached rows.
FetchPrimary(c, include_cached) ==
    IF include_cached THEN fetch_tablet_cached(tablets, c, primary_cgroup)
    ELSE fetch_tablet(tablets, c, primary_cgroup)

\* C25: where fetch_tablet of the primary cgroup returns rows, the read of
\* _PSEUDOCOLS with the same include_cached returns three columns of that
\* many entries, n_main + n_cached of the cell read (n_cached counted only
\* with include_cached and a cached group, both 0 without a tablet);
\* _ROWIDX is 0, ..., n - 1, and _CACHED is false on the first n_main entries
\* and true on the others.
C25_Pseudotablet ==
    \A c \in Cells, ic \in BOOLEAN :
        LET p      == fetch_tablet_pseudo(tablets, c, ic)
            t      == FetchPrimary(c, ic)
            tb     == tablets[CellRead(c)][primary_cgroup]
            n_main == IF tb.exists THEN Len(tb.main.table) ELSE 0
            n_cach == IF tb.exists /\ ic /\ tb.cached.present
                      THEN Len(tb.cached.table) ELSE 0
        IN  ~t.raised =>
              /\ ~p.raised
              /\ DOMAIN p.cols = {"_CACHED", "_ROWIDX", "_ROWID"}
              /\ \A n \in DOMAIN p.cols : Len(p.cols[n]) = n_main + n_cach
              /\ Len(t.rows) = n_main + n_cach
              /\ \A j \in 1..(n_main + n_cach) :
                    /\ p.cols["_ROWIDX"][j] = j - 1
                    /\ p.cols["_CACHED"][j] = (j > n_main)

\* A cell holds main rows and cached rows: the pseudotablet read with
\* include_cached marks the last entries as cached.
C25_Witness ==
    \E c \in Cells :
        /\ tablets[c][primary_cgroup].exists
        /\ tablets[c][primary_cgroup].main.present
        /\ tablets[c][primary_cgroup].main.table # <<>>
        /\ tablets[c][primary_cgroup].cached.present
        /\ tablets[c][primary_cgroup].cached.table # <<>>
        /\ ~fetch_tablet_pseudo(tablets, c, TRUE).raised
        /\ \E j \in DOMAIN fetch_tablet_pseudo(tablets, c, TRUE).cols["_CACHED"] :
              fetch_tablet_pseudo(tablets, c, TRUE).cols["_CACHED"][j]

\* The target row the primary cgroup computes for input row j of the call L
\* in cell c: the position of the stored row with the key, or the append
\* position past the stored rows, in input order.
TargetRow(L, c, j) ==
    LET key  == L.cols[primary_key]
        kold == read_tablet(L.before, c, primary_cgroup).rows
        new  == {i \in DOMAIN key : L.cells[i] = c /\ PosOf(L.before, c, key[i]) = 0}
    IN  IF PosOf(L.before, c, key[j]) # 0 THEN PosOf(L.before, c, key[j])
        ELSE Len(kold) + Cardinality({i \in new : i <= j})

\* C26: after a successful update of a cell whose cgroups had equally many
\* rows and distinct keys, every non-primary cgroup holds, at the target row
\* the primary cgroup computed for an incoming row, the values the batch has
\* for that row in the cgroup's columns, with and without blob columns in the
\* primary cgroup.
C26_SameTargetRow ==
    \A p \in Procs :
        (Appended(p) /\ loc[p].update) =>
            \A j \in DOMAIN loc[p].cells :
                LET L == loc[p]
                    c == L.cells[j]
                    m == TargetRow(L, c, j) IN
                AlignedBefore(L, c) =>
                    \A g \in Range(CGroups) \ {primary_cgroup} :
                        \A col \in Columns(g) \cap DOMAIN L.cols_ :
                            /\ m \in DOMAIN tablets[c][g].main.table
                            /\ IF col \in Blobs(g)
                               THEN Resolve(tablets, c, col, m) = L.cols_[col][j].val
                               ELSE tablets[c][g].main.table[m][col] = L.cols_[col][j]

\* The columns of the rows that are no blob columns of cgroup g.
NonBlob(rows, g) ==
    [m \in DOMAIN rows |-> [col \in Columns(g) \ Blobs(g) |-> rows[m][col]]]

\* No two elements of the sequence s are equal.
Distinct(s) == \A i, j \in DOMAIN s : i # j => s[i] # s[j]

\* The keys of the rows, in stored order.
KeysOf(rows) == [m \in DOMAIN rows |-> rows[m][primary_key]]

\* When the call L began, the primary main table of cell c was readable and
\* its keys were distinct.
DistinctBefore(L, c) ==
    /\ ~read_tablet(L.before, c, primary_cgroup).raised
    /\ Distinct(KeysOf(read_tablet(L.before, c, primary_cgroup).rows))

\* The primary cgroup of process p has built its rows on the fast path of an
\* update and is about to append them.
FastPath(p) ==
    /\ pc[p] = "write" /\ loc[p].op = "append" /\ loc[p].group = "main"
    /\ loc[p].update /\ loc[p].slice
    /\ CGroups[loc[p].cg] = primary_cgroup

\* What the general merge would store for the batch of the call L in the
\* primary main table t.
MergeWouldStore(L, t) ==
    LET colsT == ColsT(L, primary_cgroup)
        colsR == [col \in DOMAIN colsT \ Blobs(primary_cgroup) |-> colsT[col]]
        G     == ClassifyMerge(KeysOf(t), colsT[primary_key])
    IN  Overlay(Resize(t, Len(t) + G.nnew, primary_cgroup), G.idx, colsR)

\* C27: after a successful update of a cell whose stored keys were distinct,
\* the primary main table holds the stored rows at their positions, those
\* with an incoming key overwritten by the batch's values, followed by the
\* incoming rows whose key was not stored, in input order, and each row's
\* blob resolves to the value last written for its key; and where the fast
\* path is taken, the table it stores is the table the general merge would
\* store.
C27_Upsert ==
    \A p \in Procs :
        LET L == loc[p] IN
        /\ (Appended(p) /\ L.update) =>
              \A c \in Range(L.cells) :
                  DistinctBefore(L, c) =>
                      /\ NonBlob(MainTable(c), primary_cgroup)
                            = NonBlob(ReadBack(L, c, primary_cgroup), primary_cgroup)
                      /\ \A m \in DOMAIN MainTable(c) :
                            \A col \in Blobs(primary_cgroup) :
                                Resolve(tablets, c, col, m)
                                    = LastWritten(L, c, col, MainTable(c)[m][primary_key])
        /\ FastPath(p) =>
              LET t == MainTable(L.cur_cell_id) IN
              (Distinct(KeysOf(t)) /\ Distinct(L.cols[primary_key])) =>
                  NonBlob(t \o L.rows, primary_cgroup)
                      = NonBlob(MergeWouldStore(L, t), primary_cgroup)

\* An update of a cell whose keys were stored out of order has overwritten a
\* stored row that is not the first and has appended a row.
C27_Witness ==
    \E p \in Procs :
        /\ Appended(p) /\ loc[p].update
        /\ \E c \in Range(loc[p].cells) :
              LET kold == KeysOf(read_tablet(loc[p].before, c, primary_cgroup).rows)
                  key  == loc[p].cols[primary_key] IN
              /\ DistinctBefore(loc[p], c)
              /\ \E m, n \in DOMAIN kold : m < n /\ kold[m] > kold[n]
              /\ \E j \in DOMAIN key : PosOf(loc[p].before, c, key[j]) > 1
              /\ \E j \in DOMAIN key : PosOf(loc[p].before, c, key[j]) = 0
              /\ spatial_key \in DOMAIN loc[p].cols_

\* C28: in every state, also one an append left with an error, no two rows of
\* the main table of a cell's primary tablet have the same key.
C28_KeysUnique ==
    \A c \in Cells : Distinct(KeysOf(MainTable(c)))

\* Process p makes a lock attempt in this step.
LockAttempt(p) == pc[p] = "locking" /\ loc'[p] # loc[p]

\* The destination cells the call of p has locked so far.
LockedSoFar(p) == Range(loc[p].cells) \ Range(loc[p].unique_cells)

\* The append of process p writes to a tablet in this step.
TabletStep(p) ==
    /\ pc[p] \in {"open", "write"} /\ pc'[p] # pc[p]
    /\ tablets' # tablets

\* C29: the k-th attempt of an append since its last acquisition tries the
\* cell at position k mod the number of remaining cells, once and without
\* waiting: if the cell is free it is locked and leaves the remaining cells,
\* else nothing is locked and the next attempt is k + 1. At every attempt
\* each cell the call locked before is unlocked again, and k starts again
\* after an unlock; the call writes only to the cell it has locked; and an
\* append that succeeded has locked every destination cell, once.
C29_LockingLoop ==
    [][ \A p \in Procs :
          LET L == loc[p] IN
          /\ LockAttempt(p) =>
                LET i == (L.k % Len(L.unique_cells)) + 1
                    c == L.unique_cells[i] IN
                /\ \A c2 \in LockedSoFar(p) : lockfile[c2] # p
                /\ IF lockfile[c] = NoProc
                   THEN /\ lockfile' = [lockfile EXCEPT ![c] = p]
                        /\ pc'[p] = "open" /\ loc'[p].cur_cell_id = c
                        /\ Len(loc'[p].unique_cells) = Len(L.unique_cells) - 1
                        /\ Range(loc'[p].unique_cells) = Range(L.unique_cells) \ {c}
                   ELSE /\ lockfile' = lockfile
                        /\ loc'[p].k = L.k + 1
                        /\ loc'[p].unique_cells = L.unique_cells
          /\ (pc[p] = "unlock" /\ pc'[p] = "locking") =>
                /\ lockfile'[L.cur_cell_id] = NoProc
                /\ loc'[p].k = 0
          /\ (TabletStep(p) /\ L.op = "append") =>
                /\ lockfile[L.cur_cell_id] = p
                /\ L.cur_cell_id \in LockedSoFar(p)
                /\ \A c \in Cells \ {L.cur_cell_id} : tablets'[c] = tablets[c]
          /\ Appended(p)' =>
                /\ loc'[p].unique_cells = <<>>
                /\ \A c \in Range(loc'[p].cells) :
                      tablet_exists(tablets', c, primary_cgroup)
      ]_vars

\* An append to two cells has succeeded after a lock attempt that failed.
C29_Witness ==
    \E p \in Procs :
        /\ Appended(p)
        /\ Cardinality(Range(loc[p].cells)) = 2
        /\ loc[p].k > 0

\* C30: what a get_cells call returns is the set of the cells that have a
\* primary tablet when the call is made, also for a cell whose first tablet
\* an append created after the cell tree was built or loaded.
C30_CellsCoherent ==
    [][ (~cells_got.present /\ cells_got'.present) =>
            cells_got'.cells
                = {c \in Cells : tablet_exists(tablets, c, primary_cgroup)}
      ]_vars

\* C31: after every schema call, ended by a return or by a raise, the schema
\* in memory is the one schema.cfg holds: the cgroups other than the pseudo
\* cgroup in their order, the aliases, the file groups as JSON gives them
\* back, and the default filters.
C31_PersistBeforeExpose ==
    /\ store_schema(self_cgroups) = schema_cfg
    /\ self_aliases = schema_data.aliases
    /\ store_data(SchemaState).fgroups = schema_data.fgroups
    /\ self_filters = schema_data.filters

\* C32: a create_cgroup call with ignore_if_exists set, for a name that is
\* already a cgroup, raises nothing and leaves the cgroups, the column index,
\* primary_cgroup and schema.cfg as they were, whether the cgroup is the
\* primary one or not.
C32_IgnoreIfExists ==
    [][\A cgroup \in CGroupNames, schema \in SchemaInputs :
          (/\ HasCgroup(self_cgroups, cgroup)
           /\ IsCreateCgroup(cgroup, schema, TRUE))
          => /\ sres' = "ok"
             /\ UNCHANGED <<self_cgroups, self_columns, self_primary_cgroup,
                            schema_cfg>>]_vars

\* An append with an explicit cell_id has ended.
CellIdAppendDone(p) ==
    pc[p] = "done" /\ loc[p].op = "append" /\ loc[p].cell_id # NoCell

\* Every row of the batch as passed carries a key with an obj_part.
FullKeys(cols_) ==
    /\ primary_key \in DOMAIN cols_
    /\ \A j \in DOMAIN cols_[primary_key] : obj_part(cols_[primary_key][j]) # 0

\* The main group of a tablet after the call, given the tablet before it: as
\* it was, or, where the tablet file was not there, the main group a new
\* tablet file is created with.
MainKept(before, after, g) ==
    after.main = IF before.exists THEN before.main ELSE NewGroup("main", g)

\* C33: an append with a cell_id succeeds only for the group 'cached' and a
\* batch whose rows all carry a full key; it then adds every row of the
\* batch, under its key whatever the cell of the key is, to the cached group
\* of the given cell's primary tablet, adds the rows' values of the other
\* cgroups' columns to their cached groups, and leaves the main rows, the
\* main blob arrays and the key sequence of the cell and every other cell as
\* they were.
C33_CachedFrame ==
    \A p \in Procs :
        LET L == loc[p]
            c == L.cell_id IN
        CellIdAppendDone(p) =>
            /\ (result[p] = "ok") => (L.group = "cached" /\ FullKeys(L.cols_))
            /\ (L.group = "main") => (result[p] = "error")
            /\ (result[p] = "ok") =>
                  /\ \A g \in Range(CGroups) :
                        MainKept(L.before[c][g], tablets[c][g], g)
                  /\ \A c2 \in Cells \ {c} : tablets[c2] = L.before[c2]
                  /\ NonBlob(tablets[c][primary_cgroup].cached.table, primary_cgroup)
                        = NonBlob(L.before[c][primary_cgroup].cached.table
                                    \o [j \in DOMAIN L.cells |->
                                            InputRow(L, primary_cgroup, j)],
                                  primary_cgroup)
                  /\ \A g \in Range(CGroups) :
                        (Columns(g) \cap DOMAIN L.cols_ # {}) =>
                            NonBlob(tablets[c][g].cached.table, g)
                                = NonBlob(L.before[c][g].cached.table
                                            \o [j \in DOMAIN L.cells |-> InputRow(L, g, j)],
                                          g)

\* An append to the cache of cell 0, which has a main row with blobs, has
\* stored a row whose key is of cell 1.
C33_Witness ==
    \E p \in Procs :
        /\ CellIdAppendDone(p) /\ result[p] = "ok" /\ loc[p].cell_id = 0
        /\ loc[p].before[0][primary_cgroup].main.table # <<>>
        /\ \E m \in DOMAIN tablets[0][primary_cgroup].cached.table :
              cell_for_id(tablets[0][primary_cgroup].cached.table[m][primary_key]) = 1

\* The row group that is not group.
OtherGroup(group) == IF group = "main" THEN "cached" ELSE "main"

\* Process p takes a step of its drop_row_group call.
DropStep(p) ==
    /\ loc[p].op = "drop"
    /\ pc[p] \in {"dropopen", "dropnode", "dropunlock"}
    /\ pc'[p] # pc[p]

\* C34: every step of drop_row_group(cell, group) is taken with the cell's
\* lockfile held by the caller; it changes no other cell, leaves the other row
\* group of the cell's tablets as it is, and creates no tablet file; and when
\* the call has ended, no tablet of the cell has the row group.
C34_DropFrame ==
    [][ \A p \in Procs :
          DropStep(p) =>
              LET c == loc[p].cur_cell_id
                  group == loc[p].group IN
              /\ lockfile[c] = p
              /\ \A c2 \in Cells \ {c} : tablets'[c2] = tablets[c2]
              /\ \A g \in Range(CGroups) :
                    /\ tablets'[c][g].exists = tablets[c][g].exists
                    /\ tablets'[c][g][OtherGroup(group)]
                          = tablets[c][g][OtherGroup(group)]
              /\ (pc'[p] = "done") =>
                    \A g \in Range(CGroups) : ~tablets'[c][g][group].present
      ]_vars

====
